---- MODULE Spec2Model ----
(***************************************************************************)
(* ChessBall rules engine: the board value (board.rs), the forward move    *)
(* generator (moves.rs), winning-move detection (winning_moves.rs) and the *)
(* command loop that applies generated moves (main.rs).                    *)
(*                                                                         *)
(* A board is the record [rows, cols, cells, prev_tackle]; cells is the    *)
(* row-major vector of Option<Piece>, indexed from 0.  Option values are   *)
(* sequences of length at most one: None is << >>, Some(x) is << x >>.     *)
(* Coordinates are pairs << r, c >>.                                       *)
(***************************************************************************)
EXTENDS Integers, Sequences, FiniteSets, TLC

\* ---------------------------------------------------------------- bounds
\* Number of moves applied by the command loop in one behaviour.
MaxPly == 1
\* Number of columns of the mid-game positions the exploration starts from.
SmallCols == 3
\* Largest depth argument given to choose_best_move.
MaxDepth == 1
\* Largest number of pieces of text joined into an input of from_repr.
MaxTextPieces == 4

\* ------------------------------------------------------------- board.rs
DEFAULT_ROWS == 6
DEFAULT_COLS == 7

None == << >>
Some(x) == << x >>

White == "White"
Black == "Black"
Neutral == "Neutral"
Attacker == "Attacker"
Defender == "Defender"
Ball == "Ball"

Player == {White, Black, Neutral}
PieceType == {Attacker, Defender, Ball}

Piece(t, p) == [piece_type |-> t, player |-> p]

\* 8 directions of adjacency, in the order of the source table.
DIRECTIONS ==
  << <<-1, 0>>, <<1, 0>>, <<0, -1>>, <<0, 1>>,
     <<-1, -1>>, <<-1, 1>>, <<1, -1>>, <<1, 1>> >>

idx(b, r, c) == r * b.cols + c

is_on_board(b, r, c) == 0 <= r /\ r < b.rows /\ 0 <= c /\ c < b.cols

new == [rows |-> DEFAULT_ROWS, cols |-> DEFAULT_COLS,
        cells |-> [i \in 0 .. (DEFAULT_ROWS * DEFAULT_COLS - 1) |-> None],
        prev_tackle |-> None]

place_piece(b, r, c, piece) == [b EXCEPT !.cells[idx(b, r, c)] = Some(piece)]

place_ball(b, r, c) == place_piece(b, r, c, Piece(Ball, Neutral))

remove_piece(b, r, c) == [b EXCEPT !.cells[idx(b, r, c)] = None]

get_piece(b, r, c) == b.cells[idx(b, r, c)]

\* First cell in row-major order holding a Ball, as Some(<<r, c>>), or None.
find_ball(b) ==
  LET hits == {i \in DOMAIN b.cells :
                 b.cells[i] # None /\ b.cells[i][1].piece_type = Ball}
  IN  IF hits = {} THEN None
      ELSE LET i == CHOOSE j \in hits : \A k \in hits : j <= k
           IN  Some(<<i \div b.cols, i % b.cols>>)

is_forbidden_col(b, c) == c = 0 \/ c = b.cols - 1

\* new_game that puts the Ball one row further down.
new_game_ball_on_row_3 ==
  LET whiterow0 == DEFAULT_ROWS - 1
      blackrow0 == 0
      whiterow1 == whiterow0 - 1
      blackrow1 == 1
      b1 == place_piece(new, blackrow0, 1, Piece(Defender, Black))
      b2 == place_piece(b1, whiterow0, 1, Piece(Defender, White))
      b3 == place_piece(b2, blackrow0, 3, Piece(Defender, Black))
      b4 == place_piece(b3, whiterow0, 3, Piece(Defender, White))
      b5 == place_piece(b4, blackrow0, 5, Piece(Defender, Black))
      b6 == place_piece(b5, whiterow0, 5, Piece(Defender, White))
      b7 == place_piece(b6, blackrow1, 2, Piece(Attacker, Black))
      b8 == place_piece(b7, whiterow1, 2, Piece(Attacker, White))
      b9 == place_piece(b8, blackrow1, 4, Piece(Attacker, Black))
      b10 == place_piece(b9, whiterow1, 4, Piece(Attacker, White))
  IN  place_ball(b10, 3, 3)

new_game ==
  LET whiterow0 == DEFAULT_ROWS - 1
      blackrow0 == 0
      whiterow1 == whiterow0 - 1
      blackrow1 == 1
      b1 == place_piece(new, blackrow0, 1, Piece(Defender, Black))
      b2 == place_piece(b1, whiterow0, 1, Piece(Defender, White))
      b3 == place_piece(b2, blackrow0, 3, Piece(Defender, Black))
      b4 == place_piece(b3, whiterow0, 3, Piece(Defender, White))
      b5 == place_piece(b4, blackrow0, 5, Piece(Defender, Black))
      b6 == place_piece(b5, whiterow0, 5, Piece(Defender, White))
      b7 == place_piece(b6, blackrow1, 2, Piece(Attacker, Black))
      b8 == place_piece(b7, whiterow1, 2, Piece(Attacker, White))
      b9 == place_piece(b8, blackrow1, 4, Piece(Attacker, Black))
      b10 == place_piece(b9, whiterow1, 4, Piece(Attacker, White))
  IN  place_ball(b10, 2, 3)

\* ------------------------------------------------ board.rs, text format
\* A text is a sequence of characters, each written as a one-character
\* string; TwoBytes stands for a character whose UTF-8 form has two bytes.
TwoBytes == "U+00E9"

\* str::len: the length in bytes.
byte_len(s) == Len(s) + Cardinality({i \in DOMAIN s : s[i] = TwoBytes})

Player_from_char(c) ==
  IF c = "W" THEN Some(White)
  ELSE IF c = "B" THEN Some(Black)
  ELSE IF c = "N" THEN Some(Neutral) ELSE None

Player_to_char(p) == IF p = White THEN "W" ELSE IF p = Black THEN "B" ELSE "N"

PieceType_from_char(c) ==
  IF c = "A" THEN Some(Attacker)
  ELSE IF c = "D" THEN Some(Defender)
  ELSE IF c = "B" THEN Some(Ball) ELSE None

PieceType_to_char(t) ==
  IF t = Attacker THEN "A" ELSE IF t = Defender THEN "D" ELSE "B"

\* The pieces of s that begin at the positions of starts and end before
\* the next character sep or at the end of s, in the order of s.
runs(s, starts, sep) ==
  LET stop(i) == LET ends == {j \in i .. Len(s) : s[j] = sep} \cup {Len(s) + 1}
                 IN  CHOOSE j \in ends : \A k \in ends : j <= k
      nth(k) == CHOOSE i \in starts : Cardinality({j \in starts : j <= i}) = k
  IN  [k \in 1 .. Cardinality(starts) |->
         SubSeq(s, nth(k), stop(nth(k)) - 1)]

\* str::lines: the lines of s without their newline; a final newline
\* opens no further line.
lines(s) == runs(s, {i \in 1 .. Len(s) : i = 1 \/ s[i - 1] = "\n"}, "\n")

\* str::trim on a line.
trim(l) ==
  LET keep == {i \in 1 .. Len(l) : l[i] # " "}
  IN  IF keep = {} THEN << >>
      ELSE SubSeq(l, CHOOSE i \in keep : \A k \in keep : i <= k,
                     CHOOSE j \in keep : \A k \in keep : k <= j)

\* str::split_whitespace on a line.
split_whitespace(l) ==
  runs(l, {i \in 1 .. Len(l) : l[i] # " " /\ (i = 1 \/ l[i - 1] = " ")}, " ")

is_not_empty(l) == l # << >>

\* The three outcomes of from_repr: Ok(board), Err(message), and a panic.
\* A message keeps the kind of the format string and its arguments.  Inside
\* from_repr the outcome of one token is Ok(cell).
Ok(b) == [tag |-> "Ok", board |-> Some(b), err |-> None]

Err(kind, text, row, col, expected, got) ==
  [tag |-> "Err", board |-> None,
   err |-> Some([kind |-> kind, text |-> text, row |-> row, col |-> col,
                 expected |-> expected, got |-> got])]

Panic == [tag |-> "panic", board |-> None, err |-> None]

\* fmt that writes a space after every token, the last of a row included.
fmt_space_after_every_token(b) ==
  LET n == b.rows * b.cols
      F[i \in 0 .. n] ==
        IF i = 0 THEN << >>
        ELSE LET c == (i - 1) % b.cols
                 cell == b.cells[i - 1]
             IN  F[i - 1]
                   \o (IF cell # None
                       THEN <<Player_to_char(cell[1].player),
                              PieceType_to_char(cell[1].piece_type)>>
                       ELSE <<"-", "-">>)
                   \o <<" ">>
                   \o (IF c = b.cols - 1 THEN <<"\n">> ELSE << >>)
  IN  F[n]

\* Display for ChessBallBoard.
fmt(b) ==
  LET n == b.rows * b.cols
      F[i \in 0 .. n] ==
        IF i = 0 THEN << >>
        ELSE LET c == (i - 1) % b.cols
                 cell == b.cells[i - 1]
             IN  F[i - 1]
                   \o (IF cell # None
                       THEN <<Player_to_char(cell[1].player),
                              PieceType_to_char(cell[1].piece_type)>>
                       ELSE <<"-", "-">>)
                   \o (IF c + 1 < b.cols THEN <<" ">> ELSE << >>)
                   \o (IF c = b.cols - 1 THEN <<"\n">> ELSE << >>)
  IN  F[n]

from_repr(s) ==
  LET all == lines(s)
      ls == SelectSeq([k \in DOMAIN all |-> trim(all[k])], is_not_empty)
      n_rows == Len(ls)
  IN  IF n_rows = 0 THEN Panic
      ELSE
        LET n_cols == (byte_len(ls[1]) + 1) \div 3
            tokens(r) == split_whitespace(ls[r + 1])
            \* what the body of the token loop does with token c of row r
            token(r, c) ==
              LET tok == tokens(r)[c + 1]
              IN  IF tok = <<"-", "-">> THEN Ok(None)
                  ELSE IF byte_len(tok) # 2
                  THEN Err("Invalid token", tok, r, c, 0, 0)
                  ELSE IF Len(tok) < 2 THEN Panic
                  ELSE IF Player_from_char(tok[1]) = None
                  THEN Err("Unknown player", <<tok[1]>>, r, c, 0, 0)
                  ELSE IF PieceType_from_char(tok[2]) = None
                  THEN Err("Unknown piece", <<tok[2]>>, r, c, 0, 0)
                  ELSE Ok(Some(Piece(PieceType_from_char(tok[2])[1],
                                     Player_from_char(tok[1])[1])))
            \* the first token of row r that ends the parsing, if any
            row(r) ==
              IF Len(tokens(r)) # n_cols
              THEN Err("Expected cols", << >>, r, 0, n_cols, Len(tokens(r)))
              ELSE LET bad == {c \in 0 .. (n_cols - 1) : token(r, c).tag # "Ok"}
                   IN  IF bad = {} THEN Ok(None)
                       ELSE token(r, CHOOSE c \in bad : \A k \in bad : c <= k)
            bad_rows == {r \in 0 .. (n_rows - 1) : row(r).tag # "Ok"}
        IN  IF Len(ls) # n_rows
            THEN Err("Expected rows", << >>, 0, 0, n_rows, Len(ls))
            ELSE IF bad_rows # {}
            THEN row(CHOOSE r \in bad_rows : \A k \in bad_rows : r <= k)
            ELSE Ok([rows |-> n_rows, cols |-> n_cols,
                     cells |-> [i \in 0 .. (n_rows * n_cols - 1) |->
                                  token(i \div n_cols, i % n_cols).board[1]],
                     prev_tackle |-> None])

\* ------------------------------------------------------------- moves.rs
\* MoveInfo::simple with the two cells exchanged.
MoveInfo_simple_reversed(from, to) ==
  [from |-> to, to |-> from, push_ball |-> FALSE, ball_to |-> None,
   jump |-> FALSE, jumped_over |-> None, tackle |-> FALSE,
   pushed_piece_from |-> None, pushed_piece_to |-> None]

MoveInfo_simple(from, to) ==
  [from |-> from, to |-> to,
   push_ball |-> FALSE, ball_to |-> None,
   jump |-> FALSE, jumped_over |-> None,
   tackle |-> FALSE, pushed_piece_from |-> None, pushed_piece_to |-> None]

\* gen_simple_move_for that leaves the moving piece on its origin cell too.
gen_simple_move_for_keeps_origin(b, player, r, c, piece, dr, dc, results) ==
  LET nr == r + dr
      nc == c + dc
  IN  IF nr >= 0 /\ nc >= 0 /\ nr < b.rows /\ nc < b.cols
         /\ get_piece(b, nr, nc) = None
      THEN LET newb == place_piece(b, nr, nc, piece)
           IN  Append(results, <<MoveInfo_simple(<<r, c>>, <<nr, nc>>), newb>>)
      ELSE results

gen_simple_move_for(b, player, r, c, piece, dr, dc, results) ==
  LET nr == r + dr
      nc == c + dc
  IN  IF nr >= 0 /\ nc >= 0 /\ nr < b.rows /\ nc < b.cols
         /\ get_piece(b, nr, nc) = None
      THEN LET newb == place_piece(remove_piece(b, r, c), nr, nc, piece)
           IN  Append(results, <<MoveInfo_simple(<<r, c>>, <<nr, nc>>), newb>>)
      ELSE results

\* gen_ball_push_move_for that places the Ball on its destination and moves
\* nothing else.
gen_ball_push_move_for_pusher_stays(b, player, r, c, piece, dr, dc, results) ==
  LET nr == r + dr
      nc == c + dc
      br2r == nr + dr
      br2c == nc + dc
  IN  IF nr >= 0 /\ nc >= 0 /\ nr < b.rows /\ nc < b.cols
         /\ get_piece(b, nr, nc) # None
         /\ get_piece(b, nr, nc)[1].piece_type = Ball
         /\ br2r >= 0 /\ br2c >= 0 /\ br2r < b.rows /\ br2c < b.cols
         /\ get_piece(b, br2r, br2c) = None
         /\ ~is_forbidden_col(b, br2c)
      THEN LET newb ==
                 place_piece(b, br2r, br2c, Piece(Ball, Neutral))
               info == [MoveInfo_simple(<<r, c>>, <<nr, nc>>) EXCEPT
                          !.push_ball = TRUE,
                          !.ball_to = Some(<<br2r, br2c>>)]
           IN  Append(results, <<info, newb>>)
      ELSE results

\* gen_ball_push_move_for that lets attackers only push the Ball.
gen_ball_push_move_for_attackers_only(b, player, r, c, piece, dr, dc, results) ==
  LET nr == r + dr
      nc == c + dc
      br2r == nr + dr
      br2c == nc + dc
  IN  IF piece.piece_type = Attacker
         /\ nr >= 0 /\ nc >= 0 /\ nr < b.rows /\ nc < b.cols
         /\ get_piece(b, nr, nc) # None
         /\ get_piece(b, nr, nc)[1].piece_type = Ball
         /\ br2r >= 0 /\ br2c >= 0 /\ br2r < b.rows /\ br2c < b.cols
         /\ get_piece(b, br2r, br2c) = None
         /\ ~is_forbidden_col(b, br2c)
      THEN LET newb ==
                 place_piece(
                   place_piece(remove_piece(b, r, c), nr, nc, piece),
                   br2r, br2c, Piece(Ball, Neutral))
               info == [MoveInfo_simple(<<r, c>>, <<nr, nc>>) EXCEPT
                          !.push_ball = TRUE,
                          !.ball_to = Some(<<br2r, br2c>>)]
           IN  Append(results, <<info, newb>>)
      ELSE results

\* gen_ball_push_move_for that does not put the Ball back on the board.
gen_ball_push_move_for_drops_ball(b, player, r, c, piece, dr, dc, results) ==
  LET nr == r + dr
      nc == c + dc
      br2r == nr + dr
      br2c == nc + dc
  IN  IF nr >= 0 /\ nc >= 0 /\ nr < b.rows /\ nc < b.cols
         /\ get_piece(b, nr, nc) # None
         /\ get_piece(b, nr, nc)[1].piece_type = Ball
         /\ br2r >= 0 /\ br2c >= 0 /\ br2r < b.rows /\ br2c < b.cols
         /\ get_piece(b, br2r, br2c) = None
         /\ ~is_forbidden_col(b, br2c)
      THEN LET newb == place_piece(remove_piece(b, r, c), nr, nc, piece)
               info == [MoveInfo_simple(<<r, c>>, <<nr, nc>>) EXCEPT
                          !.push_ball = TRUE,
                          !.ball_to = Some(<<br2r, br2c>>)]
           IN  Append(results, <<info, newb>>)
      ELSE results

\* gen_ball_push_move_for that pushes the Ball onto an occupied cell.
gen_ball_push_move_for_onto_piece(b, player, r, c, piece, dr, dc, results) ==
  LET nr == r + dr
      nc == c + dc
      br2r == nr + dr
      br2c == nc + dc
  IN  IF nr >= 0 /\ nc >= 0 /\ nr < b.rows /\ nc < b.cols
         /\ get_piece(b, nr, nc) # None
         /\ get_piece(b, nr, nc)[1].piece_type = Ball
         /\ br2r >= 0 /\ br2c >= 0 /\ br2r < b.rows /\ br2c < b.cols
         /\ ~is_forbidden_col(b, br2c)
      THEN LET newb ==
                 place_piece(
                   place_piece(remove_piece(b, r, c), nr, nc, piece),
                   br2r, br2c, Piece(Ball, Neutral))
               info == [MoveInfo_simple(<<r, c>>, <<nr, nc>>) EXCEPT
                          !.push_ball = TRUE,
                          !.ball_to = Some(<<br2r, br2c>>)]
           IN  Append(results, <<info, newb>>)
      ELSE results

\* gen_ball_push_move_for without the forbidden-column test.
gen_ball_push_move_for_any_column(b, player, r, c, piece, dr, dc, results) ==
  LET nr == r + dr
      nc == c + dc
      br2r == nr + dr
      br2c == nc + dc
  IN  IF nr >= 0 /\ nc >= 0 /\ nr < b.rows /\ nc < b.cols
         /\ get_piece(b, nr, nc) # None
         /\ get_piece(b, nr, nc)[1].piece_type = Ball
         /\ br2r >= 0 /\ br2c >= 0 /\ br2r < b.rows /\ br2c < b.cols
         /\ get_piece(b, br2r, br2c) = None
      THEN LET newb ==
                 place_piece(
                   place_piece(remove_piece(b, r, c), nr, nc, piece),
                   br2r, br2c, Piece(Ball, Neutral))
               info == [MoveInfo_simple(<<r, c>>, <<nr, nc>>) EXCEPT
                          !.push_ball = TRUE,
                          !.ball_to = Some(<<br2r, br2c>>)]
           IN  Append(results, <<info, newb>>)
      ELSE results

gen_ball_push_move_for(b, player, r, c, piece, dr, dc, results) ==
  LET nr == r + dr
      nc == c + dc
      br2r == nr + dr
      br2c == nc + dc
  IN  IF nr >= 0 /\ nc >= 0 /\ nr < b.rows /\ nc < b.cols
         /\ get_piece(b, nr, nc) # None
         /\ get_piece(b, nr, nc)[1].piece_type = Ball
         /\ br2r >= 0 /\ br2c >= 0 /\ br2r < b.rows /\ br2c < b.cols
         /\ get_piece(b, br2r, br2c) = None
         /\ ~is_forbidden_col(b, br2c)
      THEN LET newb ==
                 place_piece(
                   place_piece(remove_piece(b, r, c), nr, nc, piece),
                   br2r, br2c, Piece(Ball, Neutral))
               info == [MoveInfo_simple(<<r, c>>, <<nr, nc>>) EXCEPT
                          !.push_ball = TRUE,
                          !.ball_to = Some(<<br2r, br2c>>)]
           IN  Append(results, <<info, newb>>)
      ELSE results

\* gen_attacker_jump_move_for without the attackers-only test.
gen_attacker_jump_move_for_any_piece(b, player, r, c, piece, dr, dc, results) ==
  LET adj_r == r + dr
      adj_c == c + dc
      jump_r == r + 2 * dr
      jump_c == c + 2 * dc
  IN  IF adj_r >= 0 /\ adj_c >= 0 /\ jump_r >= 0 /\ jump_c >= 0
         /\ adj_r < b.rows /\ adj_c < b.cols
         /\ jump_r < b.rows /\ jump_c < b.cols
         /\ get_piece(b, adj_r, adj_c) # None
         /\ get_piece(b, adj_r, adj_c)[1].piece_type # Ball
         /\ get_piece(b, jump_r, jump_c) = None
      THEN LET newb == place_piece(remove_piece(b, r, c), jump_r, jump_c, piece)
               info == [MoveInfo_simple(<<r, c>>, <<jump_r, jump_c>>) EXCEPT
                          !.jump = TRUE,
                          !.jumped_over = Some(<<adj_r, adj_c>>)]
           IN  Append(results, <<info, newb>>)
      ELSE results

gen_attacker_jump_move_for(b, player, r, c, piece, dr, dc, results) ==
  IF piece.piece_type # Attacker THEN results
  ELSE
    LET adj_r == r + dr
        adj_c == c + dc
        jump_r == r + 2 * dr
        jump_c == c + 2 * dc
    IN  IF adj_r >= 0 /\ adj_c >= 0 /\ jump_r >= 0 /\ jump_c >= 0
           /\ adj_r < b.rows /\ adj_c < b.cols
           /\ jump_r < b.rows /\ jump_c < b.cols
           /\ get_piece(b, adj_r, adj_c) # None
           /\ get_piece(b, adj_r, adj_c)[1].piece_type # Ball
           /\ get_piece(b, jump_r, jump_c) = None
        THEN LET newb == place_piece(remove_piece(b, r, c), jump_r, jump_c, piece)
                 info == [MoveInfo_simple(<<r, c>>, <<jump_r, jump_c>>) EXCEPT
                            !.jump = TRUE,
                            !.jumped_over = Some(<<adj_r, adj_c>>)]
             IN  Append(results, <<info, newb>>)
        ELSE results

\* gen_defender_tackle_move_for without the test that the target is not the
\* Ball.
gen_defender_tackle_move_for_tackles_ball(b, player, r, c, piece, dr, dc, results) ==
  IF piece.piece_type # Defender THEN results
  ELSE
    LET nr == r + dr
        nc == c + dc
        beyond_r == nr + dr
        beyond_c == nc + dc
    IN  IF nr >= 0 /\ nc >= 0 /\ nr < b.rows /\ nc < b.cols
           /\ beyond_r >= 0 /\ beyond_c >= 0
           /\ beyond_r < b.rows /\ beyond_c < b.cols
           /\ get_piece(b, nr, nc) # None
           /\ get_piece(b, nr, nc)[1].player # player
           /\ get_piece(b, beyond_r, beyond_c) = None
        THEN LET tgt == get_piece(b, nr, nc)[1]
                 newb ==
                   place_piece(
                     remove_piece(
                       place_piece(remove_piece(b, nr, nc), beyond_r, beyond_c, tgt),
                       r, c),
                     nr, nc, piece)
                 info == [MoveInfo_simple(<<r, c>>, <<nr, nc>>) EXCEPT
                            !.tackle = TRUE,
                            !.pushed_piece_from = Some(<<nr, nc>>),
                            !.pushed_piece_to = Some(<<beyond_r, beyond_c>>)]
             IN  Append(results, <<info, newb>>)
        ELSE results

\* gen_defender_tackle_move_for that takes the tackled piece off the board.
gen_defender_tackle_move_for_captures(b, player, r, c, piece, dr, dc, results) ==
  IF piece.piece_type # Defender THEN results
  ELSE
    LET nr == r + dr
        nc == c + dc
        beyond_r == nr + dr
        beyond_c == nc + dc
    IN  IF nr >= 0 /\ nc >= 0 /\ nr < b.rows /\ nc < b.cols
           /\ beyond_r >= 0 /\ beyond_c >= 0
           /\ beyond_r < b.rows /\ beyond_c < b.cols
           /\ get_piece(b, nr, nc) # None
           /\ get_piece(b, nr, nc)[1].player # player
           /\ get_piece(b, nr, nc)[1].piece_type # Ball
           /\ get_piece(b, beyond_r, beyond_c) = None
        THEN LET tgt == get_piece(b, nr, nc)[1]
                 newb ==
                   place_piece(remove_piece(remove_piece(b, nr, nc), r, c),
                               nr, nc, piece)
                 info == [MoveInfo_simple(<<r, c>>, <<nr, nc>>) EXCEPT
                            !.tackle = TRUE,
                            !.pushed_piece_from = Some(<<nr, nc>>),
                            !.pushed_piece_to = Some(<<beyond_r, beyond_c>>)]
             IN  Append(results, <<info, newb>>)
        ELSE results

\* gen_defender_tackle_move_for that leaves the defender on its origin
\* cell too.
gen_defender_tackle_move_for_keeps_origin(b, player, r, c, piece, dr, dc, results) ==
  IF piece.piece_type # Defender THEN results
  ELSE
    LET nr == r + dr
        nc == c + dc
        beyond_r == nr + dr
        beyond_c == nc + dc
    IN  IF nr >= 0 /\ nc >= 0 /\ nr < b.rows /\ nc < b.cols
           /\ beyond_r >= 0 /\ beyond_c >= 0
           /\ beyond_r < b.rows /\ beyond_c < b.cols
           /\ get_piece(b, nr, nc) # None
           /\ get_piece(b, nr, nc)[1].player # player
           /\ get_piece(b, nr, nc)[1].piece_type # Ball
           /\ get_piece(b, beyond_r, beyond_c) = None
        THEN LET tgt == get_piece(b, nr, nc)[1]
                 newb ==
                   place_piece(
                     place_piece(remove_piece(b, nr, nc), beyond_r, beyond_c, tgt),
                     nr, nc, piece)
                 info == [MoveInfo_simple(<<r, c>>, <<nr, nc>>) EXCEPT
                            !.tackle = TRUE,
                            !.pushed_piece_from = Some(<<nr, nc>>),
                            !.pushed_piece_to = Some(<<beyond_r, beyond_c>>)]
             IN  Append(results, <<info, newb>>)
        ELSE results

\* gen_defender_tackle_move_for without the opposing-owner test.
gen_defender_tackle_move_for_any_owner(b, player, r, c, piece, dr, dc, results) ==
  IF piece.piece_type # Defender THEN results
  ELSE
    LET nr == r + dr
        nc == c + dc
        beyond_r == nr + dr
        beyond_c == nc + dc
    IN  IF nr >= 0 /\ nc >= 0 /\ nr < b.rows /\ nc < b.cols
           /\ beyond_r >= 0 /\ beyond_c >= 0
           /\ beyond_r < b.rows /\ beyond_c < b.cols
           /\ get_piece(b, nr, nc) # None
           /\ get_piece(b, nr, nc)[1].piece_type # Ball
           /\ get_piece(b, beyond_r, beyond_c) = None
        THEN LET tgt == get_piece(b, nr, nc)[1]
                 newb ==
                   place_piece(
                     remove_piece(
                       place_piece(remove_piece(b, nr, nc), beyond_r, beyond_c, tgt),
                       r, c),
                     nr, nc, piece)
                 info == [MoveInfo_simple(<<r, c>>, <<nr, nc>>) EXCEPT
                            !.tackle = TRUE,
                            !.pushed_piece_from = Some(<<nr, nc>>),
                            !.pushed_piece_to = Some(<<beyond_r, beyond_c>>)]
             IN  Append(results, <<info, newb>>)
        ELSE results

gen_defender_tackle_move_for(b, player, r, c, piece, dr, dc, results) ==
  IF piece.piece_type # Defender THEN results
  ELSE
    LET nr == r + dr
        nc == c + dc
        beyond_r == nr + dr
        beyond_c == nc + dc
    IN  IF nr >= 0 /\ nc >= 0 /\ nr < b.rows /\ nc < b.cols
           /\ beyond_r >= 0 /\ beyond_c >= 0
           /\ beyond_r < b.rows /\ beyond_c < b.cols
           /\ get_piece(b, nr, nc) # None
           /\ get_piece(b, nr, nc)[1].player # player
           /\ get_piece(b, nr, nc)[1].piece_type # Ball
           /\ get_piece(b, beyond_r, beyond_c) = None
        THEN LET tgt == get_piece(b, nr, nc)[1]
                 newb ==
                   place_piece(
                     remove_piece(
                       place_piece(remove_piece(b, nr, nc), beyond_r, beyond_c, tgt),
                       r, c),
                     nr, nc, piece)
                 info == [MoveInfo_simple(<<r, c>>, <<nr, nc>>) EXCEPT
                            !.tackle = TRUE,
                            !.pushed_piece_from = Some(<<nr, nc>>),
                            !.pushed_piece_to = Some(<<beyond_r, beyond_c>>)]
             IN  Append(results, <<info, newb>>)
        ELSE results

\* The body of the direction loop with gen_simple_move_for called a second
\* time after the other generators.
gen_moves_for_simple_twice(b, player, r, c, piece, d, results) ==
  gen_simple_move_for(b, player, r, c, piece, d[1], d[2],
    gen_defender_tackle_move_for(b, player, r, c, piece, d[1], d[2],
      gen_attacker_jump_move_for(b, player, r, c, piece, d[1], d[2],
        gen_ball_push_move_for(b, player, r, c, piece, d[1], d[2],
          gen_simple_move_for(b, player, r, c, piece, d[1], d[2],
                              results)))))

\* The body of the direction loop of possible_moves for one direction.
gen_moves_for(b, player, r, c, piece, d, results) ==
  gen_defender_tackle_move_for(b, player, r, c, piece, d[1], d[2],
    gen_attacker_jump_move_for(b, player, r, c, piece, d[1], d[2],
      gen_ball_push_move_for(b, player, r, c, piece, d[1], d[2],
        gen_simple_move_for(b, player, r, c, piece, d[1], d[2], results))))

\* direction_loop that takes the directions from the last to the first.
direction_loop_reversed(b, player, r, c, piece) ==
  LET n == Len(DIRECTIONS)
      D[i \in 0 .. n] ==
        IF i = 0 THEN << >>
        ELSE D[i - 1]
               \o gen_moves_for(b, player, r, c, piece, DIRECTIONS[n + 1 - i],
                                << >>)
  IN  D[n]

\* The moves of the piece at (r, c), over the directions in table order.
direction_loop(b, player, r, c, piece) ==
  LET D[i \in 0 .. Len(DIRECTIONS)] ==
        IF i = 0 THEN << >>
        ELSE D[i - 1]
               \o gen_moves_for(b, player, r, c, piece, DIRECTIONS[i], << >>)
  IN  D[Len(DIRECTIONS)]

\* The moves generated from the cells (r, c), (r, c+1), ... of row r.
RECURSIVE col_loop(_, _, _, _)
col_loop(b, player, r, c) ==
  IF c >= b.cols THEN << >>
  ELSE LET cell == get_piece(b, r, c)
       IN  (IF cell # None /\ cell[1].player = player
            THEN direction_loop(b, player, r, c, cell[1])
            ELSE << >>) \o col_loop(b, player, r, c + 1)

\* The moves generated from row r onwards.
RECURSIVE cell_loop(_, _, _)
cell_loop(b, player, r) ==
  IF r >= b.rows THEN << >>
  ELSE col_loop(b, player, r, 0) \o cell_loop(b, player, r + 1)

\* Sequence of <<MoveInfo, resulting board>> pairs.
possible_moves(b, player) == cell_loop(b, player, 0)

\* ------------------------------ moves.rs, calls of the board accessors
\* get_piece, place_piece and remove_piece panic when the coordinate is not
\* on the board.  The operators below list, in the order of the code, the
\* accessor calls that possible_moves makes; a call that panics is the last
\* one listed, since nothing runs after it.
Access(fn, r, c) == [fn |-> fn, r |-> r, c |-> c]

panics(b, a) == ~is_on_board(b, a.r, a.c)

\* The call a, and the calls rest that follow it when it returns.
followed_by(b, a, rest) == IF panics(b, a) THEN <<a>> ELSE <<a>> \o rest

\* The calls of calls up to and including the first one that panics.
until_panic(b, calls) ==
  LET bad == {k \in 1 .. Len(calls) : panics(b, calls[k])}
  IN  IF bad = {} THEN calls
      ELSE SubSeq(calls, 1, CHOOSE k \in bad : \A j \in bad : k <= j)

gen_simple_move_for_calls(b, player, r, c, piece, dr, dc) ==
  LET nr == r + dr
      nc == c + dc
  IN  IF nr >= 0 /\ nc >= 0 /\ nr < b.rows /\ nc < b.cols
      THEN followed_by(b, Access("get_piece", nr, nc),
             IF get_piece(b, nr, nc) = None
             THEN followed_by(b, Access("remove_piece", r, c),
                    followed_by(b, Access("place_piece", nr, nc), << >>))
             ELSE << >>)
      ELSE << >>

\* The calls of a gen_ball_push_move_for that reads the cell behind the
\* ball without testing that it is on the board.
gen_ball_push_move_for_calls_unchecked(b, player, r, c, piece, dr, dc) ==
  LET nr == r + dr
      nc == c + dc
      br2r == nr + dr
      br2c == nc + dc
  IN  IF nr >= 0 /\ nc >= 0 /\ nr < b.rows /\ nc < b.cols
      THEN followed_by(b, Access("get_piece", nr, nc),
             IF get_piece(b, nr, nc) # None
                /\ get_piece(b, nr, nc)[1].piece_type = Ball
             THEN followed_by(b, Access("get_piece", br2r, br2c),
                    IF get_piece(b, br2r, br2c) = None
                       /\ ~is_forbidden_col(b, br2c)
                    THEN followed_by(b, Access("remove_piece", r, c),
                           followed_by(b, Access("place_piece", nr, nc),
                             followed_by(b,
                               Access("place_piece", br2r, br2c), << >>)))
                    ELSE << >>)
             ELSE << >>)
      ELSE << >>

gen_ball_push_move_for_calls(b, player, r, c, piece, dr, dc) ==
  LET nr == r + dr
      nc == c + dc
      br2r == nr + dr
      br2c == nc + dc
  IN  IF nr >= 0 /\ nc >= 0 /\ nr < b.rows /\ nc < b.cols
      THEN followed_by(b, Access("get_piece", nr, nc),
             IF get_piece(b, nr, nc) # None
                /\ get_piece(b, nr, nc)[1].piece_type = Ball
                /\ br2r >= 0 /\ br2c >= 0 /\ br2r < b.rows /\ br2c < b.cols
             THEN followed_by(b, Access("get_piece", br2r, br2c),
                    IF get_piece(b, br2r, br2c) = None
                       /\ ~is_forbidden_col(b, br2c)
                    THEN followed_by(b, Access("remove_piece", r, c),
                           followed_by(b, Access("place_piece", nr, nc),
                             followed_by(b,
                               Access("place_piece", br2r, br2c), << >>)))
                    ELSE << >>)
             ELSE << >>)
      ELSE << >>

gen_attacker_jump_move_for_calls(b, player, r, c, piece, dr, dc) ==
  LET adj_r == r + dr
      adj_c == c + dc
      jump_r == r + 2 * dr
      jump_c == c + 2 * dc
  IN  IF piece.piece_type # Attacker THEN << >>
      ELSE IF adj_r >= 0 /\ adj_c >= 0 /\ jump_r >= 0 /\ jump_c >= 0
              /\ adj_r < b.rows /\ adj_c < b.cols
              /\ jump_r < b.rows /\ jump_c < b.cols
      THEN followed_by(b, Access("get_piece", adj_r, adj_c),
             followed_by(b, Access("get_piece", jump_r, jump_c),
               IF get_piece(b, adj_r, adj_c) # None
                  /\ get_piece(b, adj_r, adj_c)[1].piece_type # Ball
                  /\ get_piece(b, jump_r, jump_c) = None
               THEN followed_by(b, Access("remove_piece", r, c),
                      followed_by(b, Access("place_piece", jump_r, jump_c),
                                  << >>))
               ELSE << >>))
      ELSE << >>

gen_defender_tackle_move_for_calls(b, player, r, c, piece, dr, dc) ==
  LET nr == r + dr
      nc == c + dc
      beyond_r == nr + dr
      beyond_c == nc + dc
  IN  IF piece.piece_type # Defender THEN << >>
      ELSE IF nr >= 0 /\ nc >= 0 /\ nr < b.rows /\ nc < b.cols
              /\ beyond_r >= 0 /\ beyond_c >= 0
              /\ beyond_r < b.rows /\ beyond_c < b.cols
      THEN followed_by(b, Access("get_piece", nr, nc),
             followed_by(b, Access("get_piece", beyond_r, beyond_c),
               IF get_piece(b, nr, nc) # None
                  /\ get_piece(b, nr, nc)[1].player # player
                  /\ get_piece(b, nr, nc)[1].piece_type # Ball
                  /\ get_piece(b, beyond_r, beyond_c) = None
               THEN followed_by(b, Access("remove_piece", nr, nc),
                      followed_by(b, Access("place_piece", beyond_r, beyond_c),
                        followed_by(b, Access("remove_piece", r, c),
                          followed_by(b, Access("place_piece", nr, nc),
                                      << >>))))
               ELSE << >>))
      ELSE << >>

\* The calls made for the piece at (r, c) in the eight directions.
direction_loop_calls(b, player, r, c, piece) ==
  LET D[i \in 0 .. Len(DIRECTIONS)] ==
        IF i = 0 THEN << >>
        ELSE LET dr == DIRECTIONS[i][1]
                 dc == DIRECTIONS[i][2]
             IN  D[i - 1]
                   \o gen_simple_move_for_calls(b, player, r, c, piece, dr, dc)
                   \o gen_ball_push_move_for_calls(b, player, r, c, piece, dr, dc)
                   \o gen_attacker_jump_move_for_calls(b, player, r, c, piece,
                                                       dr, dc)
                   \o gen_defender_tackle_move_for_calls(b, player, r, c, piece,
                                                         dr, dc)
  IN  D[Len(DIRECTIONS)]

\* The calls made for the cells (r, c), (r, c+1), ... of row r.
RECURSIVE col_loop_calls(_, _, _, _)
col_loop_calls(b, player, r, c) ==
  IF c >= b.cols THEN << >>
  ELSE LET cell == get_piece(b, r, c)
       IN  <<Access("get_piece", r, c)>>
             \o (IF cell # None /\ cell[1].player = player
                 THEN direction_loop_calls(b, player, r, c, cell[1])
                 ELSE << >>)
             \o col_loop_calls(b, player, r, c + 1)

\* The calls made from row r onwards.
RECURSIVE cell_loop_calls(_, _, _)
cell_loop_calls(b, player, r) ==
  IF r >= b.rows THEN << >>
  ELSE col_loop_calls(b, player, r, 0) \o cell_loop_calls(b, player, r + 1)

possible_moves_calls(b, player) ==
  until_panic(b, cell_loop_calls(b, player, 0))

\* -------------------------------------- moves.rs, retrograde generation
\* Reverse simple step that does not ask for an empty cell of origin.
previous_simple_move_for_onto_piece(b, player, r, c, piece, dr, dc, prevs) ==
  LET pr == r - dr
      pc == c - dc
  IN  IF pr >= 0 /\ pc >= 0 /\ pr < b.rows /\ pc < b.cols
      THEN LET prev_board == place_piece(remove_piece(b, r, c), pr, pc, piece)
           IN  Append(prevs, <<MoveInfo_simple(<<pr, pc>>, <<r, c>>), prev_board>>)
      ELSE prevs

\* Reverse simple step of the piece at (r, c): it came from (r-dr, c-dc).
previous_simple_move_for(b, player, r, c, piece, dr, dc, prevs) ==
  LET pr == r - dr
      pc == c - dc
  IN  IF pr >= 0 /\ pc >= 0 /\ pr < b.rows /\ pc < b.cols
         /\ get_piece(b, pr, pc) = None
      THEN LET prev_board == place_piece(remove_piece(b, r, c), pr, pc, piece)
           IN  Append(prevs, <<MoveInfo_simple(<<pr, pc>>, <<r, c>>), prev_board>>)
      ELSE prevs

\* Reverse ball push, tried when find_ball returns the cell (r, c) of the
\* piece under consideration.
previous_ball_push_move_for(b, player, r, c, piece, dr, dc, prevs) ==
  IF find_ball(b) = None THEN prevs
  ELSE
    LET br == find_ball(b)[1][1]
        bc == find_ball(b)[1][2]
        ball_src_r == r - dr
        ball_src_c == c - dc
        pr == r - dr
        pc == c - dc
    IN  IF br = r /\ bc = c
           /\ ball_src_r >= 0 /\ ball_src_c >= 0 /\ pr >= 0 /\ pc >= 0
           /\ ball_src_c < b.cols /\ ball_src_r < b.rows
           /\ pr < b.rows /\ pc < b.cols
           /\ ~is_forbidden_col(b, ball_src_c)
           /\ get_piece(b, br, bc) # None
           /\ get_piece(b, br, bc)[1].piece_type = Ball
           /\ get_piece(b, pr, pc) = None
        THEN LET prev_board ==
                   place_piece(
                     remove_piece(
                       place_piece(remove_piece(b, r, c), pr, pc, piece),
                       br, bc),
                     ball_src_r, ball_src_c, Piece(Ball, Neutral))
                 info == [MoveInfo_simple(<<pr, pc>>, <<r, c>>) EXCEPT
                            !.push_ball = TRUE,
                            !.ball_to = Some(<<r, c>>)]
             IN  Append(prevs, <<info, prev_board>>)
        ELSE prevs

\* Reverse attacker jump: the attacker at (r, c) came from (r-2dr, c-2dc)
\* over the piece at (r-dr, c-dc).
previous_attacker_jump_move_for(b, player, r, c, piece, dr, dc, prevs) ==
  LET adj_r == r - dr
      adj_c == c - dc
      prev_r == r - 2 * dr
      prev_c == c - 2 * dc
  IN  IF adj_r >= 0 /\ adj_c >= 0 /\ prev_r >= 0 /\ prev_c >= 0
         /\ adj_r < b.rows /\ adj_c < b.cols
         /\ prev_r < b.rows /\ prev_c < b.cols
         /\ get_piece(b, adj_r, adj_c) # None
         /\ get_piece(b, adj_r, adj_c)[1].piece_type # Ball
         /\ get_piece(b, prev_r, prev_c) = None
      THEN LET prev_board ==
                 place_piece(remove_piece(b, r, c), prev_r, prev_c, piece)
               info == [MoveInfo_simple(<<prev_r, prev_c>>, <<r, c>>) EXCEPT
                          !.jump = TRUE,
                          !.jumped_over = Some(<<adj_r, adj_c>>)]
           IN  Append(prevs, <<info, prev_board>>)
      ELSE prevs

\* Reverse defender tackle: the defender at (r, c) came from (r-dr, c-dc)
\* and pushed the opposing piece now at (r+dr, c+dc) away from (r, c).
previous_defender_tackle_move_for(b, player, r, c, piece, dr, dc, prevs) ==
  LET opp_r == r - dr
      opp_c == c - dc
      pushed_r == r + dr
      pushed_c == c + dc
  IN  IF opp_r >= 0 /\ opp_c >= 0 /\ pushed_r >= 0 /\ pushed_c >= 0
         /\ opp_r < b.rows /\ opp_c < b.cols
         /\ pushed_r < b.rows /\ pushed_c < b.cols
         /\ get_piece(b, pushed_r, pushed_c) # None
         /\ get_piece(b, pushed_r, pushed_c)[1].player # player
         /\ get_piece(b, pushed_r, pushed_c)[1].piece_type # Ball
         /\ get_piece(b, opp_r, opp_c) = None
      THEN LET op == get_piece(b, pushed_r, pushed_c)[1]
               prev_board ==
                 place_piece(
                   remove_piece(
                     place_piece(remove_piece(b, r, c), opp_r, opp_c, piece),
                     pushed_r, pushed_c),
                   r, c, op)
               info == [MoveInfo_simple(<<opp_r, opp_c>>, <<r, c>>) EXCEPT
                          !.tackle = TRUE,
                          !.pushed_piece_from = Some(<<r, c>>),
                          !.pushed_piece_to = Some(<<pushed_r, pushed_c>>)]
           IN  Append(prevs, <<info, prev_board>>)
      ELSE prevs

\* The three direction loops run for the piece at (r, c): simple step and
\* ball push per direction, then the jumps, then the tackles.
previous_direction_loops(b, player, r, c, piece) ==
  LET n == Len(DIRECTIONS)
      S[i \in 0 .. n] ==
        IF i = 0 THEN << >>
        ELSE S[i - 1]
               \o previous_ball_push_move_for(b, player, r, c, piece,
                    DIRECTIONS[i][1], DIRECTIONS[i][2],
                    previous_simple_move_for(b, player, r, c, piece,
                      DIRECTIONS[i][1], DIRECTIONS[i][2], << >>))
      J[i \in 0 .. n] ==
        IF i = 0 THEN << >>
        ELSE J[i - 1]
               \o previous_attacker_jump_move_for(b, player, r, c, piece,
                    DIRECTIONS[i][1], DIRECTIONS[i][2], << >>)
      T[i \in 0 .. n] ==
        IF i = 0 THEN << >>
        ELSE T[i - 1]
               \o previous_defender_tackle_move_for(b, player, r, c, piece,
                    DIRECTIONS[i][1], DIRECTIONS[i][2], << >>)
  IN  S[n] \o (IF piece.piece_type = Attacker THEN J[n] ELSE << >>)
           \o (IF piece.piece_type = Defender THEN T[n] ELSE << >>)

\* The predecessors generated from the cells (r, c), (r, c+1), ... of row r.
RECURSIVE previous_col_loop(_, _, _, _)
previous_col_loop(b, player, r, c) ==
  IF c >= b.cols THEN << >>
  ELSE LET cell == get_piece(b, r, c)
       IN  (IF cell # None /\ cell[1].player = player
            THEN previous_direction_loops(b, player, r, c, cell[1])
            ELSE << >>) \o previous_col_loop(b, player, r, c + 1)

\* The predecessors generated from row r onwards.
RECURSIVE previous_cell_loop(_, _, _)
previous_cell_loop(b, player, r) ==
  IF r >= b.rows THEN << >>
  ELSE previous_col_loop(b, player, r, 0) \o previous_cell_loop(b, player, r + 1)

\* Sequence of <<MoveInfo, predecessor board>> pairs.
possible_previous_moves(b, player) == previous_cell_loop(b, player, 0)

\* ------------------------------------------------------ winning_moves.rs
\* winning_moves that takes row rows-1 as the goal row of every player.
winning_moves_one_goal_row(position, player) ==
  LET winner_row == position.rows - 1
      pm == possible_moves(position, player)
      wins(i) == find_ball(pm[i][2]) # None
                 /\ find_ball(pm[i][2])[1][1] = winner_row
      F[i \in 0 .. Len(pm)] ==
        IF i = 0 THEN << >>
        ELSE IF wins(i) THEN Append(F[i - 1], pm[i][1]) ELSE F[i - 1]
  IN  F[Len(pm)]

winning_moves(position, player) ==
  LET winner_row == IF player = Black THEN 0 ELSE position.rows - 1
      pm == possible_moves(position, player)
      wins(i) == find_ball(pm[i][2]) # None
                 /\ find_ball(pm[i][2])[1][1] = winner_row
      F[i \in 0 .. Len(pm)] ==
        IF i = 0 THEN << >>
        ELSE IF wins(i) THEN Append(F[i - 1], pm[i][1]) ELSE F[i - 1]
  IN  F[Len(pm)]

\* ------------------------------------------------------ blocking_move.rs
\* The loop of find_blocking_move from the i-th generated move on.
RECURSIVE blocking_loop(_, _, _)
blocking_loop(pm, opponent, i) ==
  IF i > Len(pm) THEN None
  ELSE IF winning_moves(pm[i][2], opponent) = << >> THEN Some(pm[i][1])
       ELSE blocking_loop(pm, opponent, i + 1)

\* find_blocking_move that tests the mover's own winning moves.
find_blocking_move_own_wins(position, player) ==
  blocking_loop(possible_moves(position, player), player, 1)

find_blocking_move(position, player) ==
  LET opponent == IF player = White THEN Black
                  ELSE IF player = Black THEN White ELSE Neutral
  IN  blocking_loop(possible_moves(position, player), opponent, 1)

\* --------------------------------------------------- win_avoidability.rs
\* The loop of is_win_avoidable_by_opponent from the i-th predecessor on.
RECURSIVE avoidable_loop(_, _, _)
avoidable_loop(previous_positions, opponent, i) ==
  IF i > Len(previous_positions) THEN TRUE
  ELSE IF find_blocking_move(previous_positions[i][2], opponent) = None
       THEN FALSE
       ELSE avoidable_loop(previous_positions, opponent, i + 1)

\* is_win_avoidable_by_opponent without the test for an empty predecessor
\* list.
is_win_avoidable_by_opponent_vacuous(position, player) ==
  LET opponent == IF player = White THEN Black
                  ELSE IF player = Black THEN White ELSE Neutral
  IN  avoidable_loop(possible_previous_moves(position, opponent), opponent, 1)

is_win_avoidable_by_opponent(position, player) ==
  LET opponent == IF player = White THEN Black
                  ELSE IF player = Black THEN White ELSE Neutral
      previous_positions == possible_previous_moves(position, opponent)
  IN  IF previous_positions = << >> THEN FALSE
      ELSE avoidable_loop(previous_positions, opponent, 1)

\* --------------------------------------------------------- heuristics.rs
\* Feature values are fractions whose denominators (8, mob_cap, max_pieces,
\* rows - 1 and 2 * (rows - 1)) all divide 2 * mob_cap * (rows - 1); a value
\* is held as its numerator over Unit(b), so that 1.0 is Unit(b).
\* Boards have at least two rows (the divisions by rows - 1 are defined)
\* and one Neutral Ball (count_control_around_ball is defined).
mob_cap == 60
max_pieces == 5

Unit(b) == 2 * mob_cap * (b.rows - 1)

Frac(b, num, den) == (num * Unit(b)) \div den

opponent_of(player) ==
  IF player = White THEN Black ELSE IF player = Black THEN White ELSE Neutral

DirIndex == DOMAIN DIRECTIONS

VacantAt(b, r, c) == is_on_board(b, r, c) /\ get_piece(b, r, c) = None

OwnedAt(b, r, c, player) ==
  /\ is_on_board(b, r, c)
  /\ get_piece(b, r, c) # None
  /\ get_piece(b, r, c)[1].player = player

\* count_adjacent_pushers without the test of the ball's destination cell.
count_adjacent_pushers_any_destination(b, player) ==
  IF find_ball(b) = None THEN 0
  ELSE LET br == find_ball(b)[1][1]
           bc == find_ball(b)[1][2]
       IN  Cardinality({i \in DirIndex :
             LET dr == DIRECTIONS[i][1]
                 dc == DIRECTIONS[i][2]
             IN  /\ is_on_board(b, br - dr, bc - dc)
                 /\ is_on_board(b, br + dr, bc + dc)
                 /\ OwnedAt(b, br - dr, bc - dc, player)})

count_adjacent_pushers(b, player) ==
  IF find_ball(b) = None THEN 0
  ELSE LET br == find_ball(b)[1][1]
           bc == find_ball(b)[1][2]
       IN  Cardinality({i \in DirIndex :
             LET dr == DIRECTIONS[i][1]
                 dc == DIRECTIONS[i][2]
             IN  /\ is_on_board(b, br - dr, bc - dc)
                 /\ is_on_board(b, br + dr, bc + dc)
                 /\ ~is_forbidden_col(b, bc + dc)
                 /\ OwnedAt(b, br - dr, bc - dc, player)
                 /\ get_piece(b, br + dr, bc + dc) = None})

\* <<friendly, enemy>>: the pieces of player and of anyone else next to
\* the Ball.
count_control_around_ball(b, player) ==
  IF find_ball(b) = None THEN <<0, 0>>
  ELSE LET br == find_ball(b)[1][1]
           bc == find_ball(b)[1][2]
           around == {i \in DirIndex :
                        /\ is_on_board(b, br + DIRECTIONS[i][1], bc + DIRECTIONS[i][2])
                        /\ get_piece(b, br + DIRECTIONS[i][1],
                                        bc + DIRECTIONS[i][2]) # None}
           friendly == {i \in around :
                          get_piece(b, br + DIRECTIONS[i][1],
                                       bc + DIRECTIONS[i][2])[1].player = player}
       IN  <<Cardinality(friendly), Cardinality(around \ friendly)>>

\* count_control_around_ball reaches one of its unreachable! branches: a
\* cell next to the first Ball holds a Ball or a piece owned by Neutral.
count_control_around_ball_traps(b, player) ==
  /\ find_ball(b) # None
  /\ LET br == find_ball(b)[1][1]
         bc == find_ball(b)[1][2]
     IN  \E i \in DirIndex :
           LET r == br + DIRECTIONS[i][1]
               c == bc + DIRECTIONS[i][2]
           IN  /\ is_on_board(b, r, c)
               /\ get_piece(b, r, c) # None
               /\ \/ get_piece(b, r, c)[1].piece_type = Ball
                  \/ get_piece(b, r, c)[1].player = Neutral

mobility(b, player) == Len(possible_moves(b, player))

\* Pairs (piece of player, direction) with an opposing Defender on one
\* side of the piece and an empty cell on the other.
vulnerable_pieces_count(b, player) ==
  LET opponent == opponent_of(player)
  IN  Cardinality({x \in (DOMAIN b.cells) \X DirIndex :
        LET r == x[1] \div b.cols
            c == x[1] % b.cols
            dr == DIRECTIONS[x[2]][1]
            dc == DIRECTIONS[x[2]][2]
        IN  /\ b.cells[x[1]] # None
            /\ b.cells[x[1]][1].player = player
            /\ is_on_board(b, r + dr, c + dc)
            /\ VacantAt(b, r - dr, c - dc)
            /\ get_piece(b, r + dr, c + dc) # None
            /\ get_piece(b, r + dr, c + dc)[1].piece_type = Defender
            /\ get_piece(b, r + dr, c + dc)[1].player = opponent})

approx_push_distance(b, player) ==
  IF find_ball(b) = None THEN 0
  ELSE LET br == find_ball(b)[1][1]
           bc == find_ball(b)[1][2]
           dist == IF player = Black THEN br ELSE (b.rows - 1) - br
           max_dist == b.rows - 1
           forward == IF player = White THEN 1 ELSE -1
           \* twice the bonus: 1 stands for 0.5
           bonus2 == IF /\ OwnedAt(b, br - forward, bc, player)
                        /\ VacantAt(b, br + forward, bc)
                        /\ ~is_forbidden_col(b, bc)
                     THEN 1 ELSE 0
           eff2 == IF 2 * dist - bonus2 > 0 THEN 2 * dist - bonus2 ELSE 0
           norm == Unit(b) - Frac(b, eff2, 2 * max_dist)
       IN  IF max_dist = 0 THEN Unit(b)
           ELSE IF norm < 0 THEN 0 ELSE norm

ball_row_for_player(b, player) ==
  IF find_ball(b) = None THEN -Unit(b)
  ELSE LET br == find_ball(b)[1][1]
           val == IF player = Black THEN (b.rows - 1) - br ELSE br
       IN  Frac(b, val, b.rows - 1)

count_opponent_pieces_between_ball_and_goal(b, player) ==
  IF find_ball(b) = None \/ player = Neutral THEN 0
  ELSE LET br == find_ball(b)[1][1]
           goal_row == IF player = White THEN b.rows - 1 ELSE 0
           start == IF br < goal_row THEN br ELSE goal_row
           end == IF br > goal_row THEN br ELSE goal_row
       IN  IF end - start <= 1 THEN 0
           ELSE Cardinality({i \in DOMAIN b.cells :
                  /\ i \div b.cols > start
                  /\ b.cells[i] # None
                  /\ b.cells[i][1].player # player
                  /\ b.cells[i][1].piece_type # Ball})

feature_vector(b, player) ==
  LET opponent == opponent_of(player)
      player_wins == winning_moves(b, player) # << >>
      opp_wins == winning_moves(b, opponent) # << >>
      ball == find_ball(b)
      dist_rows == IF player = White THEN (b.rows - 1) - ball[1][1]
                   ELSE ball[1][1]
      control == count_control_around_ball(b, player)
  IN  [win_now |-> IF player_wins THEN Unit(b) ELSE 0,
       lose_now |-> IF opp_wins THEN Unit(b) ELSE 0,
       ball_row |-> IF ball = None THEN 0
                    ELSE Unit(b) - Frac(b, dist_rows, b.rows - 1),
       ball_in_forbidden_col |->
         IF ball # None /\ is_forbidden_col(b, ball[1][2]) THEN Unit(b) ELSE 0,
       adj_pushers |-> Frac(b, count_adjacent_pushers(b, player), 8),
       opp_adj_pushers |-> Frac(b, count_adjacent_pushers(b, opponent), 8),
       control |-> Frac(b, control[1] - control[2], 8),
       mobility |-> Frac(b, mobility(b, player) - mobility(b, opponent), mob_cap),
       push_distance |-> approx_push_distance(b, player),
       unavoidable_win |->
         IF player_wins /\ ~is_win_avoidable_by_opponent(b, player)
         THEN Unit(b) ELSE 0,
       vulnerable |-> Frac(b, vulnerable_pieces_count(b, player), max_pieces),
       ball_row_value |-> ball_row_for_player(b, player),
       opp_between_ball_and_goal |->
         Frac(b, count_opponent_pieces_between_ball_and_goal(b, player), 5)]

\* feats.values().sum()
feature_sum(feats) ==
  feats.win_now + feats.lose_now + feats.ball_row
    + feats.ball_in_forbidden_col + feats.adj_pushers + feats.opp_adj_pushers
    + feats.control + feats.mobility + feats.push_distance
    + feats.unavoidable_win + feats.vulnerable + feats.ball_row_value
    + feats.opp_between_ball_and_goal

\* ------------------------------------------------------------ minimax.rs
\* An f64 score: inf is 1 for +infinity, -1 for -infinity and 0 for a
\* finite value, whose numerator over Unit(b) is num.
INFINITY == [inf |-> 1, num |-> 0]
NEG_INFINITY == [inf |-> -1, num |-> 0]
Finite(n) == [inf |-> 0, num |-> n]

\* a > b and a < b on f64 scores.
gt(a, b) == a.inf > b.inf \/ (a.inf = 0 /\ b.inf = 0 /\ a.num > b.num)
lt(a, b) == gt(b, a)

\* The first generated pair whose board has the Ball on the winner row, as
\* Some(<<mv, b2>>); None when winning_moves is empty.
\* has_immediate_win that looks for the Ball on row rows-1 for every player.
has_immediate_win_one_goal_row(b, player) ==
  IF winning_moves(b, player) = << >> THEN None
  ELSE LET pm == possible_moves(b, player)
           winner_row == b.rows - 1
           hits == {i \in 1 .. Len(pm) :
                      /\ find_ball(pm[i][2]) # None
                      /\ find_ball(pm[i][2])[1][1] = winner_row}
       IN  IF hits = {} THEN None
           ELSE Some(pm[CHOOSE i \in hits : \A j \in hits : i <= j])

has_immediate_win(b, player) ==
  IF winning_moves(b, player) = << >> THEN None
  ELSE LET pm == possible_moves(b, player)
           winner_row == IF player = Black THEN 0 ELSE b.rows - 1
           hits == {i \in 1 .. Len(pm) :
                      /\ find_ball(pm[i][2]) # None
                      /\ find_ball(pm[i][2])[1][1] = winner_row}
       IN  IF hits = {} THEN None
           ELSE Some(pm[CHOOSE i \in hits : \A j \in hits : i <= j])

\* The result of one call of minimax: score, move and board as returned,
\* and below, the number of nested calls under this one.
Result(score, m, b, below) ==
  [score |-> score, mv |-> m, board |-> b, below |-> below]

Max(x, y) == IF x > y THEN x ELSE y

RECURSIVE minimax(_, _, _, _, _)

\* The results of the recursive calls made by the loop of minimax for the
\* moves lo .. hi of the list, in list order.
RECURSIVE children(_, _, _, _, _, _, _)
children(moves_, other, ply, maximizing, root_player, lo, hi) ==
  IF lo > hi THEN << >>
  ELSE IF lo = hi
  THEN <<minimax(moves_[lo][2], other, ply - 1, ~maximizing, root_player)>>
  ELSE LET mid == (lo + hi) \div 2
       IN  children(moves_, other, ply, maximizing, root_player, lo, mid)
             \o children(moves_, other, ply, maximizing, root_player,
                         mid + 1, hi)

\* minimax without the test of the other player's immediate win.
minimax_ignores_threat(node_board, to_move, ply, maximizing, root_player) ==
  LET other == IF to_move = White THEN Black
               ELSE IF to_move = Black THEN White ELSE Neutral
      win == has_immediate_win(node_board, to_move)
      static == Finite(feature_sum(feature_vector(node_board, root_player)))
      moves_ == possible_moves(node_board, to_move)
      called == children(moves_, other, ply, maximizing, root_player,
                         1, Len(moves_))
      \* best, best_move, best_board after the first i moves of the loop
      best[i \in 0 .. Len(moves_)] ==
        IF i = 0
        THEN Result(IF maximizing THEN NEG_INFINITY ELSE INFINITY,
                    None, None, 0)
        ELSE LET sofar == best[i - 1]
                 child == called[i]
                 below == Max(sofar.below, 1 + child.below)
             IN  IF (IF maximizing THEN gt(child.score, sofar.score)
                                   ELSE lt(child.score, sofar.score))
                 THEN Result(child.score, Some(moves_[i][1]),
                             Some(moves_[i][2]), below)
                 ELSE [sofar EXCEPT !.below = below]
  IN  IF win # None
      THEN Result(IF maximizing THEN INFINITY ELSE NEG_INFINITY,
                  Some(win[1][1]), Some(win[1][2]), 0)
      ELSE IF ply = 0 THEN Result(static, None, None, 0)
      ELSE IF moves_ = << >> THEN Result(static, None, None, 0)
      ELSE best[Len(moves_)]

\* minimax whose static evaluation is made for the player to move.
minimax_static_for_to_move(node_board, to_move, ply, maximizing, root_player) ==
  LET other == IF to_move = White THEN Black
               ELSE IF to_move = Black THEN White ELSE Neutral
      win == has_immediate_win(node_board, to_move)
      static == Finite(feature_sum(feature_vector(node_board, to_move)))
      moves_ == possible_moves(node_board, to_move)
      called == children(moves_, other, ply, maximizing, root_player,
                         1, Len(moves_))
      \* best, best_move, best_board after the first i moves of the loop
      best[i \in 0 .. Len(moves_)] ==
        IF i = 0
        THEN Result(IF maximizing THEN NEG_INFINITY ELSE INFINITY,
                    None, None, 0)
        ELSE LET sofar == best[i - 1]
                 child == called[i]
                 below == Max(sofar.below, 1 + child.below)
             IN  IF (IF maximizing THEN gt(child.score, sofar.score)
                                   ELSE lt(child.score, sofar.score))
                 THEN Result(child.score, Some(moves_[i][1]),
                             Some(moves_[i][2]), below)
                 ELSE [sofar EXCEPT !.below = below]
  IN  IF win # None
      THEN Result(IF maximizing THEN INFINITY ELSE NEG_INFINITY,
                  Some(win[1][1]), Some(win[1][2]), 0)
      ELSE IF has_immediate_win(node_board, other) # None
      THEN Result(IF maximizing THEN NEG_INFINITY ELSE INFINITY, None, None, 0)
      ELSE IF ply = 0 THEN Result(static, None, None, 0)
      ELSE IF moves_ = << >> THEN Result(static, None, None, 0)
      ELSE best[Len(moves_)]

\* minimax whose leaves return the initial value of best instead of the
\* static evaluation.
minimax_unevaluated_leaf(node_board, to_move, ply, maximizing, root_player) ==
  LET other == IF to_move = White THEN Black
               ELSE IF to_move = Black THEN White ELSE Neutral
      win == has_immediate_win(node_board, to_move)
      initial == IF maximizing THEN NEG_INFINITY ELSE INFINITY
      moves_ == possible_moves(node_board, to_move)
      called == children(moves_, other, ply, maximizing, root_player,
                         1, Len(moves_))
      best[i \in 0 .. Len(moves_)] ==
        IF i = 0 THEN Result(initial, None, None, 0)
        ELSE LET sofar == best[i - 1]
                 child == called[i]
                 below == Max(sofar.below, 1 + child.below)
             IN  IF (IF maximizing THEN gt(child.score, sofar.score)
                                   ELSE lt(child.score, sofar.score))
                 THEN Result(child.score, Some(moves_[i][1]),
                             Some(moves_[i][2]), below)
                 ELSE [sofar EXCEPT !.below = below]
  IN  IF win # None
      THEN Result(IF maximizing THEN INFINITY ELSE NEG_INFINITY,
                  Some(win[1][1]), Some(win[1][2]), 0)
      ELSE IF has_immediate_win(node_board, other) # None
      THEN Result(IF maximizing THEN NEG_INFINITY ELSE INFINITY, None, None, 0)
      ELSE IF ply = 0 THEN Result(initial, None, None, 0)
      ELSE IF moves_ = << >> THEN Result(initial, None, None, 0)
      ELSE best[Len(moves_)]

minimax(node_board, to_move, ply, maximizing, root_player) ==
  LET other == IF to_move = White THEN Black
               ELSE IF to_move = Black THEN White ELSE Neutral
      win == has_immediate_win(node_board, to_move)
      static == Finite(feature_sum(feature_vector(node_board, root_player)))
      moves_ == possible_moves(node_board, to_move)
      called == children(moves_, other, ply, maximizing, root_player,
                         1, Len(moves_))
      \* best, best_move, best_board after the first i moves of the loop
      best[i \in 0 .. Len(moves_)] ==
        IF i = 0
        THEN Result(IF maximizing THEN NEG_INFINITY ELSE INFINITY,
                    None, None, 0)
        ELSE LET sofar == best[i - 1]
                 child == called[i]
                 below == Max(sofar.below, 1 + child.below)
             IN  IF (IF maximizing THEN gt(child.score, sofar.score)
                                   ELSE lt(child.score, sofar.score))
                 THEN Result(child.score, Some(moves_[i][1]),
                             Some(moves_[i][2]), below)
                 ELSE [sofar EXCEPT !.below = below]
  IN  IF win # None
      THEN Result(IF maximizing THEN INFINITY ELSE NEG_INFINITY,
                  Some(win[1][1]), Some(win[1][2]), 0)
      ELSE IF has_immediate_win(node_board, other) # None
      THEN Result(IF maximizing THEN NEG_INFINITY ELSE INFINITY, None, None, 0)
      ELSE IF ply = 0 THEN Result(static, None, None, 0)
      ELSE IF moves_ = << >> THEN Result(static, None, None, 0)
      ELSE best[Len(moves_)]

\* choose_best_move that returns the board it was given with a winning
\* move.
choose_best_move_board_before(b, player, depth) ==
  LET opponent == IF player = White THEN Black
                  ELSE IF player = Black THEN White ELSE Neutral
      win == has_immediate_win(b, player)
  IN  IF win # None
      THEN Result(INFINITY, Some(win[1][1]), Some(b), 0)
      ELSE IF has_immediate_win(b, opponent) # None
      THEN Result(NEG_INFINITY, None, None, 0)
      ELSE minimax(b, player, depth, TRUE, player)

\* choose_best_move that tests the opponent's immediate win first.
choose_best_move_opponent_first(b, player, depth) ==
  LET opponent == IF player = White THEN Black
                  ELSE IF player = Black THEN White ELSE Neutral
      win == has_immediate_win(b, player)
  IN  IF has_immediate_win(b, opponent) # None
      THEN Result(NEG_INFINITY, None, None, 0)
      ELSE IF win # None
      THEN Result(INFINITY, Some(win[1][1]), Some(win[1][2]), 0)
      ELSE minimax(b, player, depth, TRUE, player)

\* choose_best_move that starts the recursion one ply too high.
choose_best_move_extra_ply(b, player, depth) ==
  LET opponent == IF player = White THEN Black
                  ELSE IF player = Black THEN White ELSE Neutral
      win == has_immediate_win(b, player)
  IN  IF win # None
      THEN Result(INFINITY, Some(win[1][1]), Some(win[1][2]), 0)
      ELSE IF has_immediate_win(b, opponent) # None
      THEN Result(NEG_INFINITY, None, None, 0)
      ELSE minimax(b, player, depth + 1, TRUE, player)

choose_best_move(b, player, depth) ==
  LET opponent == IF player = White THEN Black
                  ELSE IF player = Black THEN White ELSE Neutral
      win == has_immediate_win(b, player)
  IN  IF win # None
      THEN Result(INFINITY, Some(win[1][1]), Some(win[1][2]), 0)
      ELSE IF has_immediate_win(b, opponent) # None
      THEN Result(NEG_INFINITY, None, None, 0)
      ELSE minimax(b, player, depth, TRUE, player)

\* --------------------------------------------------------------- main.rs
swap_player(p) ==
  IF p = White THEN Black ELSE IF p = Black THEN White ELSE Neutral

\* board, current: the locals of main; moves: possible_moves(board, current),
\* the list the loop prints ("list") and indexes ("m <index>"); mv: the
\* description of the move that produced board, None before the first
\* move; ply: the number of moves applied so far; ret: the value returned
\* by the last library call made on board and current, None before it.
VARIABLES board, current, moves, mv, ply, ret

vars == <<board, current, moves, mv, ply, ret>>

\* Mid-game positions, shaped like the boards of the unit tests: the ball
\* off the forbidden columns and at most two attackers or defenders, on a
\* grid with both goal rows, one row between them and SmallCols columns.
SmallRows == DEFAULT_ROWS \div 2

CellsOf(cols) == 0 .. (SmallRows * cols - 1)

SmallCells == CellsOf(SmallCols)

FieldPieces ==
  {Piece(t, p) : t \in {Attacker, Defender}, p \in {White, Black}}

EmptyOf(cols) == [rows |-> SmallRows, cols |-> cols,
                  cells |-> [i \in CellsOf(cols) |-> None],
                  prev_tackle |-> None]

SmallEmpty == EmptyOf(SmallCols)

\* The board with the Ball on cell bi and the piece f[i] on each cell i of S.
Placed(cols, bi, S, f) ==
  [EmptyOf(cols) EXCEPT !.cells =
     [i \in CellsOf(cols) |->
        IF i = bi THEN Some(Piece(Ball, Neutral))
        ELSE IF i \in S THEN Some(f[i]) ELSE None]]

PositionsOf(cols) ==
  UNION { UNION { { Placed(cols, bi, S, f) : f \in [S -> FieldPieces] }
                  : S \in {{x, y} : x, y \in CellsOf(cols) \ {bi}} \cup {{}} }
          : bi \in {i \in CellsOf(cols) :
                      ~is_forbidden_col(EmptyOf(cols), i % cols)} }

Positions == PositionsOf(SmallCols)

\* Positions given to the search: one column wider, the Ball in play (on
\* neither goal row) and every piece on a cell next to the Ball.
NextTo(cols, bi) ==
  {i \in CellsOf(cols) \ {bi} :
     /\ (i \div cols) - (bi \div cols) \in -1 .. 1
     /\ (i % cols) - (bi % cols) \in -1 .. 1}

SearchPositions ==
  LET cols == SmallCols + 1
  IN  UNION { UNION { { Placed(cols, bi, S, f) : f \in [S -> FieldPieces] }
                      : S \in {{x, y} : x, y \in NextTo(cols, bi)} \cup {{}} }
              : bi \in {i \in CellsOf(cols) :
                          /\ ~is_forbidden_col(EmptyOf(cols), i % cols)
                          /\ i \div cols # 0
                          /\ i \div cols # SmallRows - 1} }

Init ==
  /\ \/ board = new_game /\ current = White
     \/ board \in Positions /\ current \in {White, Black}
  /\ moves = possible_moves(board, current)
  /\ mv = None
  /\ ply = 0
  /\ ret = None

InitSearch ==
  /\ \/ board = new_game /\ current = White
     \/ board \in SearchPositions /\ current \in {White, Black}
  /\ moves = possible_moves(board, current)
  /\ mv = None
  /\ ply = 0
  /\ ret = None

\* "m <index>": the board becomes the index-th generated board and the
\* player to move is swapped; the list is generated anew for that player.
apply_move_by_index(index) ==
  /\ ply < MaxPly
  /\ index < Len(moves)
  /\ board' = moves[index + 1][2]
  /\ mv' = Some(moves[index + 1][1])
  /\ current' = swap_player(current)
  /\ moves' = possible_moves(board', current')
  /\ ply' = ply + 1
  /\ ret' = None

Next == \E index \in 0 .. (Len(moves) - 1) : apply_move_by_index(index)

Spec == Init /\ [][Next]_vars

\* -------------------------------------------------- calls of the library
\* One call of a library function on the position (board, current); the
\* call and its result are recorded in ret.
Returned(fn, value) == Some([fn |-> fn, value |-> value])

call_find_blocking_move ==
  /\ ret = None
  /\ ret' = Returned("find_blocking_move", find_blocking_move(board, current))
  /\ UNCHANGED <<board, current, moves, mv, ply>>

call_is_win_avoidable_by_opponent ==
  /\ ret = None
  /\ ret' = Returned("is_win_avoidable_by_opponent",
                     is_win_avoidable_by_opponent(board, current))
  /\ UNCHANGED <<board, current, moves, mv, ply>>

call_possible_previous_moves ==
  /\ ret = None
  /\ ret' = Returned("possible_previous_moves",
                     possible_previous_moves(board, current))
  /\ UNCHANGED <<board, current, moves, mv, ply>>

\* ret also records the depth argument of choose_best_move.
call_choose_best_move(depth) ==
  /\ ret = None
  /\ ret' = Some([fn |-> "choose_best_move", depth |-> depth,
                  value |-> choose_best_move(board, current, depth)])
  /\ UNCHANGED <<board, current, moves, mv, ply>>

NextSearch == \E depth \in 0 .. MaxDepth : call_choose_best_move(depth)

SpecSearch == InitSearch /\ [][NextSearch]_vars

NextQuery ==
  \/ call_find_blocking_move
  \/ call_is_win_avoidable_by_opponent
  \/ call_possible_previous_moves

SpecQuery == Init /\ [][NextQuery]_vars

\* possible_previous_moves called for the player to move on the board
\* reached by its index-th generated move; ret also records the index.
call_possible_previous_moves_after(index) ==
  /\ ret = None
  /\ index < Len(moves)
  /\ ret' = Some([fn |-> "possible_previous_moves_after", index |-> index,
                  value |-> possible_previous_moves(moves[index + 1][2],
                                                    current)])
  /\ UNCHANGED <<board, current, moves, mv, ply>>

\* Boards of SmallRows x SmallCols with at most two pieces, each an
\* attacker, a defender or a Ball: with or without a Ball, with or without
\* a piece of the player.
TotalPositions ==
  UNION { { [SmallEmpty EXCEPT !.cells =
               [i \in SmallCells |-> IF i \in S THEN Some(f[i]) ELSE None]]
            : f \in [S -> FieldPieces \cup {Piece(Ball, Neutral)}] }
          : S \in {{x, y} : x, y \in SmallCells} \cup {{}} }

\* The board of test_possible_moves_push_move.
push_test_board ==
  place_ball(place_piece(new, 2, 3, Piece(Defender, White)), 2, 4)

InitTotal ==
  /\ \/ board = new_game
     \/ board = push_test_board
     \/ board \in TotalPositions
  /\ current \in Player
  /\ moves = possible_moves(board, current)
  /\ mv = None
  /\ ply = 0
  /\ ret = None

\* ret records the accessor calls next to the returned list; nothing is
\* returned when a call panicked.
call_possible_moves ==
  /\ ret = None
  /\ LET calls == possible_moves_calls(board, current)
     IN  ret' = Some([fn |-> "possible_moves", calls |-> calls,
                      value |-> IF \E k \in 1 .. Len(calls) :
                                      panics(board, calls[k])
                                THEN None
                                ELSE Some(possible_moves(board, current))])
  /\ UNCHANGED <<board, current, moves, mv, ply>>

call_has_immediate_win ==
  /\ ret = None
  /\ ret' = Returned("has_immediate_win", has_immediate_win(board, current))
  /\ UNCHANGED <<board, current, moves, mv, ply>>

NextTotal ==
  \/ call_possible_moves
  \/ call_has_immediate_win

SpecTotal == InitTotal /\ [][NextTotal]_vars

\* The start text of main, row by row.
start ==
  LET E == <<"-", "-">>
      BD == <<"B", "D">>
      BA == <<"B", "A">>
      NB == <<"N", "B">>
      WA == <<"W", "A">>
      WD == <<"W", "D">>
      line(t) == t[1] \o <<" ">> \o t[2] \o <<" ">> \o t[3] \o <<" ">> \o t[4]
                   \o <<" ">> \o t[5] \o <<" ">> \o t[6] \o <<" ">> \o t[7]
                   \o <<"\n">>
  IN  line(<<E, BD, E, BD, E, BD, E>>)
        \o line(<<E, E, BA, E, BA, E, E>>)
        \o line(<<E, E, E, NB, E, E, E>>)
        \o line(<<E, E, E, E, E, E, E>>)
        \o line(<<E, E, WA, E, WA, E, E>>)
        \o line(<<E, WD, E, WD, E, WD, E>>)

\* The texts given to from_repr: up to MaxTextPieces pieces, each a token,
\* a letter, a space, a newline, an unknown letter or a two-byte character.
TextPieces ==
  {<<"W", "A">>, <<"N", "B">>, <<"-", "-">>, <<"B">>, <<"x">>, <<TwoBytes>>,
   <<" ">>, <<"\n">>}

RECURSIVE TextsOf(_)
TextsOf(n) ==
  IF n = 0 THEN {<< >>}
  ELSE TextsOf(n - 1) \cup {t \o q : t \in TextsOf(n - 1), q \in TextPieces}

Texts == TextsOf(MaxTextPieces) \cup {start}

\* The boards given to fmt: the empty board, the start board, the small
\* boards of TotalPositions and the small boards with one piece of any
\* owner and kind.
PrintBoards ==
  {new, new_game} \cup TotalPositions
    \cup {[SmallEmpty EXCEPT !.cells[i] = Some(Piece(t, q))] :
            i \in SmallCells, t \in PieceType, q \in Player}

InitText ==
  /\ board = new_game
  /\ current = White
  /\ moves = possible_moves(board, current)
  /\ mv = None
  /\ ply = 0
  /\ ret = None

\* from_repr on a text, and fmt on a board; source is None.
call_from_repr(t) ==
  /\ ret = None
  /\ ret' = Some([fn |-> "from_repr", text |-> t, source |-> None,
                  value |-> from_repr(t)])
  /\ UNCHANGED <<board, current, moves, mv, ply>>

call_fmt(b) ==
  /\ ret = None
  /\ ret' = Some([fn |-> "fmt", board |-> b, source |-> None,
                  value |-> fmt(b)])
  /\ UNCHANGED <<board, current, moves, mv, ply>>

\* from_repr on the text that fmt returned; source is the printed board.
call_from_repr_of_printed ==
  /\ ret # None /\ ret[1].fn = "fmt" /\ ret[1].source = None
  /\ ret' = Some([fn |-> "from_repr", text |-> ret[1].value,
                  source |-> Some(ret[1].board),
                  value |-> from_repr(ret[1].value)])
  /\ UNCHANGED <<board, current, moves, mv, ply>>

\* fmt on the board that from_repr returned; source is the parsed text.
call_fmt_of_parsed ==
  /\ ret # None /\ ret[1].fn = "from_repr" /\ ret[1].source = None
  /\ ret[1].value.tag = "Ok"
  /\ ret' = Some([fn |-> "fmt", board |-> ret[1].value.board[1],
                  source |-> Some(ret[1].text),
                  value |-> fmt(ret[1].value.board[1])])
  /\ UNCHANGED <<board, current, moves, mv, ply>>

NextText ==
  \/ \E t \in Texts : call_from_repr(t)
  \/ \E b \in PrintBoards : call_fmt(b)
  \/ call_from_repr_of_printed
  \/ call_fmt_of_parsed

SpecText == InitText /\ [][NextText]_vars

call_count_opponent_pieces_between_ball_and_goal ==
  /\ ret = None
  /\ ret' = Returned("count_opponent_pieces_between_ball_and_goal",
                     count_opponent_pieces_between_ball_and_goal(board,
                                                                 current))
  /\ UNCHANGED <<board, current, moves, mv, ply>>

call_count_adjacent_pushers ==
  /\ ret = None
  /\ ret' = Returned("count_adjacent_pushers",
                     count_adjacent_pushers(board, current))
  /\ UNCHANGED <<board, current, moves, mv, ply>>

\* Nothing is returned when count_control_around_ball trapped.
call_feature_vector ==
  /\ ret = None
  /\ ret' = Returned("feature_vector",
                     IF count_control_around_ball_traps(board, current)
                     THEN None
                     ELSE Some(feature_vector(board, current)))
  /\ UNCHANGED <<board, current, moves, mv, ply>>

\* The small board with the Ball on cell bi, the attacker or defender f on
\* cell x and a defender of the other player on the cells y and z next
\* to x.
TacklePosition(bi, x, y, z, f) ==
  Placed(SmallCols, bi, {x, y, z},
         [i \in {x, y, z} |->
            IF i = x THEN f ELSE Piece(Defender, opponent_of(f.player))])

\* A 6x7 board with the pieces of new_game except one Black attacker: the
\* three White defenders stand in a row between two Black defenders.
crowded_board ==
  LET wd == Piece(Defender, White)
      bd == Piece(Defender, Black)
      b1 == place_piece(place_piece(place_piece(new, 2, 2, wd), 2, 3, wd),
                        2, 4, wd)
      b2 == place_piece(place_piece(place_piece(b1, 1, 3, bd), 3, 3, bd),
                        0, 1, bd)
      b3 == place_piece(place_piece(b2, 5, 1, Piece(Attacker, White)),
                        5, 5, Piece(Attacker, White))
  IN  place_ball(place_piece(b3, 0, 5, Piece(Attacker, Black)), 4, 5)

\* The boards given to the heuristics: those of InitTotal, the small
\* boards with one Ball and at most two other pieces, those of
\* TacklePosition and crowded_board.
InitFeatures ==
  /\ \/ /\ \/ board = new_game
           \/ board = push_test_board
           \/ board = crowded_board
           \/ board \in TotalPositions
        /\ current \in Player
     \/ /\ \/ board \in Positions
           \/ \E bi \in {i \in SmallCells :
                             ~is_forbidden_col(SmallEmpty, i % SmallCols)} :
                \E x \in SmallCells \ {bi} :
                  \E y, z \in NextTo(SmallCols, x) \ {bi} :
                    \E f \in FieldPieces :
                      board = TacklePosition(bi, x, y, z, f)
        /\ current \in {White, Black}
  /\ moves = possible_moves(board, current)
  /\ mv = None
  /\ ply = 0
  /\ ret = None

NextFeatures ==
  \/ call_count_opponent_pieces_between_ball_and_goal
  \/ call_count_adjacent_pushers
  \/ call_feature_vector

SpecFeatures == InitFeatures /\ [][NextFeatures]_vars

\* The nodes of the search.  board and current are node_board and to_move:
\* the root is the position given to choose_best_move and ply counts the
\* moves from the root, so the node is maximizing when ply is even.
\* The roots have the Ball in play and, next to it, one piece or two
\* pieces of different owners.
NodePositions ==
  UNION { UNION { { Placed(SmallCols, bi, S, f) :
                      f \in {g \in [S -> FieldPieces] :
                               \A x, y \in S :
                                 x # y => g[x].player # g[y].player} }
                  : S \in {{x, y} : x, y \in NextTo(SmallCols, bi)} }
          : bi \in {i \in SmallCells :
                      /\ ~is_forbidden_col(SmallEmpty, i % SmallCols)
                      /\ i \div SmallCols # 0
                      /\ i \div SmallCols # SmallRows - 1} }

InitNode ==
  /\ board \in NodePositions
  /\ current \in {White, Black}
  /\ moves = possible_moves(board, current)
  /\ mv = None
  /\ ply = 0
  /\ ret = None

\* The loops of minimax call minimax on the board after each move, with
\* the other player to move; a node is expanded only when neither player
\* has an immediate win on it and its ply is not 0, and the root also
\* passes the two tests of choose_best_move before it.
expand(index) ==
  /\ ply = 0
  /\ index < Len(moves)
  /\ has_immediate_win(board, current) = None
  /\ has_immediate_win(board, swap_player(current)) = None
  /\ board' = moves[index + 1][2]
  /\ current' = swap_player(current)
  /\ moves' = possible_moves(board', current')
  /\ ply' = ply + 1
  /\ ret' = None
  /\ UNCHANGED mv

\* The call of minimax on a node under the root with remaining plies; ret
\* records the arguments next to the result.
call_minimax(remaining) ==
  /\ ret = None
  /\ ply > 0
  /\ LET maximizing == ply % 2 = 0
         root_player == IF maximizing THEN current ELSE swap_player(current)
     IN  ret' = Some([fn |-> "minimax", ply |-> remaining,
                      maximizing |-> maximizing, root_player |-> root_player,
                      value |-> minimax(board, current, remaining,
                                        maximizing, root_player)])
  /\ UNCHANGED <<board, current, moves, mv, ply>>

\* The call of choose_best_move on the root.
call_choose_best_move_at_root(depth) ==
  /\ ply = 0
  /\ call_choose_best_move(depth)

NextNode ==
  \/ \E index \in 0 .. (Len(moves) - 1) : expand(index)
  \/ \E remaining \in 0 .. MaxDepth : call_minimax(remaining)
  \/ \E depth \in 0 .. MaxDepth : call_choose_best_move_at_root(depth)

SpecNode == InitNode /\ [][NextNode]_vars

\* A game played by index from the start board or from a small position,
\* either player to move first.
InitGame ==
  /\ \/ board = new_game
     \/ board \in Positions
  /\ current \in {White, Black}
  /\ moves = possible_moves(board, current)
  /\ mv = None
  /\ ply = 0
  /\ ret = None

SpecGame == InitGame /\ [][Next]_vars

\* Nothing is returned when count_control_around_ball trapped.
call_count_control_around_ball ==
  /\ ret = None
  /\ ret' = Returned("count_control_around_ball",
                     IF count_control_around_ball_traps(board, current)
                     THEN None
                     ELSE Some(count_control_around_ball(board, current)))
  /\ UNCHANGED <<board, current, moves, mv, ply>>

\* A game from the start board, either player to move first, in which
\* the board is evaluated after any move.
InitEval ==
  /\ board = new_game
  /\ current \in {White, Black}
  /\ moves = possible_moves(board, current)
  /\ mv = None
  /\ ply = 0
  /\ ret = None

NextEval ==
  \/ \E index \in 0 .. (Len(moves) - 1) : apply_move_by_index(index)
  \/ call_feature_vector
  \/ call_count_control_around_ball

SpecEval == InitEval /\ [][NextEval]_vars

NextRetro ==
  \E index \in 0 .. (Len(moves) - 1) : call_possible_previous_moves_after(index)

SpecRetro == Init /\ [][NextRetro]_vars

\* ------------------------------------------------------------ properties
\* Vocabulary of the properties, stated on cells rather than on the
\* generators: the cells of a board, the cell one step further, the content
\* of a cell, the cells of a player, the cells holding a Ball, the cells in
\* which two boards differ.
OnBoard(b, x) == x[1] \in 0 .. (b.rows - 1) /\ x[2] \in 0 .. (b.cols - 1)

Coord(b, i) == <<i \div b.cols, i % b.cols>>

Dirs == {DIRECTIONS[i] : i \in DOMAIN DIRECTIONS}

Step(x, d) == <<x[1] + d[1], x[2] + d[2]>>

At(b, x) == b.cells[x[1] * b.cols + x[2]]

Empty(b, x) == OnBoard(b, x) /\ At(b, x) = None

Holds(b, x) == OnBoard(b, x) /\ At(b, x) # None

HoldsBall(b, x) == Holds(b, x) /\ At(b, x)[1].piece_type = Ball

Own(b, p) ==
  {Coord(b, i) : i \in {j \in DOMAIN b.cells :
                          b.cells[j] # None /\ b.cells[j][1].player = p}}

BallCoords(b) ==
  {Coord(b, i) : i \in {j \in DOMAIN b.cells :
                          b.cells[j] # None /\ b.cells[j][1].piece_type = Ball}}

Changed(b, nb) ==
  {Coord(b, i) : i \in {j \in DOMAIN b.cells : b.cells[j] # nb.cells[j]}}

SameShape(b, nb) ==
  nb.rows = b.rows /\ nb.cols = b.cols /\ DOMAIN nb.cells = DOMAIN b.cells

IsSimple(m) == ~m.push_ball /\ ~m.jump /\ ~m.tackle

Generated == 1 .. Len(moves)

OneNeutralBall(b) ==
  /\ Cardinality(BallCoords(b)) = 1
  /\ \A x \in BallCoords(b) : At(b, x)[1].player = Neutral

\* C1: the board holds exactly one Ball, owned by Neutral, and so does every
\* board generated for the player to move.
C1_ExactlyOneBall ==
  /\ OneNeutralBall(board)
  /\ \A i \in Generated : OneNeutralBall(moves[i][2])

\* A ball push has been applied (the only move that rewrites the Ball cell).
C1_Witness ==
  /\ mv # None /\ mv[1].push_ball
  /\ BallCoords(board) = {mv[1].ball_to[1]}

\* C2: every generated board differs from the source board in exactly 2
\* cells for a simple move or a jump and in exactly 3 cells for a ball push
\* or a tackle; all other cells are equal.
C2_CellsChanged ==
  \A i \in Generated :
    LET m == moves[i][1]
        nb == moves[i][2]
    IN  /\ SameShape(board, nb)
        /\ Cardinality(Changed(board, nb))
             = (IF m.push_ball \/ m.tackle THEN 3 ELSE 2)

\* After a move, the list generated for the next player holds a two-cell
\* move and a three-cell move of the same board.
C2_Witness ==
  /\ mv # None
  /\ \E i \in Generated : IsSimple(moves[i][1])
                          /\ Cardinality(Changed(board, moves[i][2])) = 2
  /\ \E i \in Generated : moves[i][1].tackle
                          /\ Cardinality(Changed(board, moves[i][2])) = 3

PushLegal(b, x, d) ==
  /\ HoldsBall(b, Step(x, d))
  /\ Empty(b, Step(Step(x, d), d))
  /\ Step(Step(x, d), d)[2] \notin {0, b.cols - 1}

\* C3: a push of the piece at x in direction d is generated iff x+d holds
\* the Ball and x+2d is on the board, empty and off columns 0 and cols-1; in
\* its board x is empty, the pusher stands on x+d and the Ball on x+2d.
C3_BallPush ==
  /\ \A x \in Own(board, current) : \A d \in Dirs :
       PushLegal(board, x, d)
         <=> \E i \in Generated : /\ moves[i][1].push_ball
                                  /\ moves[i][1].from = x
                                  /\ moves[i][1].to = Step(x, d)
  /\ \A i \in Generated :
       LET m == moves[i][1]
           nb == moves[i][2]
           d == <<m.to[1] - m.from[1], m.to[2] - m.from[2]>>
       IN  m.push_ball =>
             /\ m.from \in Own(board, current)
             /\ d \in Dirs
             /\ At(nb, m.from) = None
             /\ At(nb, m.to) = At(board, m.from)
             /\ HoldsBall(nb, Step(m.to, d))
             /\ m.ball_to = Some(Step(m.to, d))

\* A push has been applied: the pusher stands where the move says.
C3_Witness ==
  /\ mv # None /\ mv[1].push_ball
  /\ mv[1].to \in Own(board, swap_player(current))
  /\ HoldsBall(board, Step(mv[1].to,
                  <<mv[1].to[1] - mv[1].from[1], mv[1].to[2] - mv[1].from[2]>>))

\* C4: the Ball never stands in column 0 or in column cols-1.
C4_BallOffForbiddenColumns ==
  \A x \in BallCoords(board) : x[2] # 0 /\ x[2] # board.cols - 1

\* After a push, a piece of the player to move stands next to the Ball with
\* an empty forbidden-column cell behind it, and no push is generated; a
\* piece stands in a forbidden column.
C4_Witness ==
  /\ mv # None /\ mv[1].push_ball
  /\ \E x \in Own(board, current) : \E d \in Dirs :
       /\ HoldsBall(board, Step(x, d))
       /\ Empty(board, Step(Step(x, d), d))
       /\ Step(Step(x, d), d)[2] \in {0, board.cols - 1}
       /\ \A i \in Generated : ~moves[i][1].push_ball
  /\ \E p \in {White, Black} : \E x \in Own(board, p) :
       x[2] \in {0, board.cols - 1}

\* C5: a simple move of the piece at x to x+d is generated iff x+d is on
\* the board and empty; its board has the piece on x+d, x empty and every
\* other cell unchanged.
C5_SimpleMove ==
  /\ \A x \in Own(board, current) : \A d \in Dirs :
       Empty(board, Step(x, d))
         <=> \E i \in Generated : /\ IsSimple(moves[i][1])
                                  /\ moves[i][1].from = x
                                  /\ moves[i][1].to = Step(x, d)
  /\ \A i \in Generated :
       LET m == moves[i][1]
           nb == moves[i][2]
       IN  IsSimple(m) =>
             /\ m.from \in Own(board, current)
             /\ \E d \in Dirs : m.to = Step(m.from, d)
             /\ At(nb, m.from) = None
             /\ At(nb, m.to) = At(board, m.from)
             /\ SameShape(board, nb)
             /\ Changed(board, nb) = {m.from, m.to}

\* A simple move has been applied with the Ball and another piece on board.
C5_Witness ==
  /\ mv # None /\ IsSimple(mv[1])
  /\ At(board, mv[1].from) = None
  /\ mv[1].to \in Own(board, swap_player(current))
  /\ Own(board, current) # {}

JumpLegal(b, x, d) ==
  /\ Holds(b, Step(x, d)) /\ ~HoldsBall(b, Step(x, d))
  /\ Empty(b, Step(Step(x, d), d))

\* C6: a jump from x in direction d is generated iff the piece at x is an
\* Attacker, x+d holds a non-Ball piece of either owner and x+2d is on the
\* board and empty; its board has the attacker on x+2d, x empty and the
\* jumped piece unchanged.  No jump starts from a Defender.
C6_AttackerJump ==
  /\ \A x \in Own(board, current) : \A d \in Dirs :
       (At(board, x)[1].piece_type = Attacker /\ JumpLegal(board, x, d))
         <=> \E i \in Generated : /\ moves[i][1].jump
                                  /\ moves[i][1].from = x
                                  /\ moves[i][1].jumped_over = Some(Step(x, d))
  /\ \A i \in Generated :
       LET m == moves[i][1]
           nb == moves[i][2]
       IN  m.jump =>
             /\ m.from \in Own(board, current)
             /\ At(board, m.from)[1].piece_type = Attacker
             /\ \E d \in Dirs : /\ m.jumped_over = Some(Step(m.from, d))
                                /\ m.to = Step(Step(m.from, d), d)
             /\ At(nb, m.from) = None
             /\ At(nb, m.to) = At(board, m.from)
             /\ At(nb, m.jumped_over[1]) = At(board, m.jumped_over[1])

\* A jump has been applied: the attacker has landed and the jumped piece
\* still stands between origin and landing cell.
C6_Witness ==
  /\ mv # None /\ mv[1].jump
  /\ Holds(board, mv[1].to) /\ At(board, mv[1].to)[1].piece_type = Attacker
  /\ Holds(board, mv[1].jumped_over[1])
  /\ At(board, mv[1].from) = None

TackleLegal(b, p, x, d) ==
  /\ Holds(b, Step(x, d)) /\ ~HoldsBall(b, Step(x, d))
  /\ At(b, Step(x, d))[1].player = swap_player(p)
  /\ Empty(b, Step(Step(x, d), d))

\* C7: a tackle from x in direction d is generated iff the piece at x is a
\* Defender, x+d holds a non-Ball piece of the other player and x+2d is on
\* the board and empty; its board has the tackled piece on x+2d, the
\* defender on x+d and x empty.  No tackle starts from an Attacker, and none
\* pushes a piece of the mover's side or the Ball.
C7_DefenderTackle ==
  /\ \A x \in Own(board, current) : \A d \in Dirs :
       (At(board, x)[1].piece_type = Defender
          /\ TackleLegal(board, current, x, d))
         <=> \E i \in Generated : /\ moves[i][1].tackle
                                  /\ moves[i][1].from = x
                                  /\ moves[i][1].to = Step(x, d)
  /\ \A i \in Generated :
       LET m == moves[i][1]
           nb == moves[i][2]
           d == <<m.to[1] - m.from[1], m.to[2] - m.from[2]>>
       IN  m.tackle =>
             /\ m.from \in Own(board, current)
             /\ At(board, m.from)[1].piece_type = Defender
             /\ d \in Dirs
             /\ At(board, m.to)[1].player = swap_player(current)
             /\ At(board, m.to)[1].piece_type # Ball
             /\ At(nb, m.from) = None
             /\ At(nb, m.to) = At(board, m.from)
             /\ At(nb, Step(m.to, d)) = At(board, m.to)
             /\ m.pushed_piece_from = Some(m.to)
             /\ m.pushed_piece_to = Some(Step(m.to, d))

\* A tackle has been applied: the defender stands on the tackled piece's
\* cell and the tackled piece, of the player now to move, one cell further.
C7_Witness ==
  /\ mv # None /\ mv[1].tackle
  /\ Holds(board, mv[1].to) /\ At(board, mv[1].to)[1].piece_type = Defender
  /\ mv[1].pushed_piece_to[1] \in Own(board, current)
  /\ At(board, mv[1].from) = None

\* C8: after a tackle in which the defender went from A to B and pushed a
\* piece from B to C, the list generated for the next ply holds no jump of
\* the piece on C over B and no tackle by the piece on C of the piece on B.
C8_AntiOscillation ==
  (mv # None /\ mv[1].tackle) =>
    \A i \in Generated :
      LET m == moves[i][1]
      IN  ~ /\ m.from = mv[1].pushed_piece_to[1]
            /\ \/ m.jump /\ m.jumped_over = mv[1].pushed_piece_from
               \/ m.tackle /\ m.pushed_piece_from = mv[1].pushed_piece_from

DefenderTackle(from, to) ==
  [pushed_piece_from |-> from, pushed_piece_to |-> to]

\* C9: the board produced by a tackle carries last-tackle memory equal to
\* (pushed-from, pushed-to) of that tackle; the board produced by any other
\* move carries empty last-tackle memory.
C9_LastTackleMemory ==
  mv # None =>
    IF mv[1].tackle
    THEN board.prev_tackle =
           Some(DefenderTackle(mv[1].pushed_piece_from[1],
                               mv[1].pushed_piece_to[1]))
    ELSE board.prev_tackle = None

GoalRow(b, p) == IF p = Black THEN 0 ELSE b.rows - 1

BallOnGoalRow(b, p) == \E x \in BallCoords(b) : x[1] = GoalRow(b, p)

RECURSIVE WinningSublist(_, _)
WinningSublist(ms, p) ==
  IF ms = << >> THEN << >>
  ELSE (IF BallOnGoalRow(Head(ms)[2], p) THEN <<Head(ms)[1]>> ELSE << >>)
         \o WinningSublist(Tail(ms), p)

\* C10: winning_moves is the sub-list, in order, of the descriptions of the
\* generated moves whose board has the Ball on the mover's goal row.
C10_WinningMovesFilter ==
  winning_moves(board, current) = WinningSublist(moves, current)

\* A move has been applied and the player to move has winning moves and
\* other moves.
C10_Witness ==
  /\ mv # None
  /\ winning_moves(board, current) # << >>
  /\ Len(winning_moves(board, current)) < Len(moves)

\* The player p has a generated move that puts the Ball on p's goal row.
CanWinNow(b, p) ==
  LET pm == possible_moves(b, p)
  IN  \E k \in 1 .. Len(pm) : BallOnGoalRow(pm[k][2], p)

Blocks(i) == ~CanWinNow(moves[i][2], swap_player(current))

\* C11: a move returned by find_blocking_move is the first generated move
\* after which the opponent has no winning move; none is returned only when
\* the opponent has a winning move after every generated move.
C11_BlockingMove ==
  (ret # None /\ ret[1].fn = "find_blocking_move") =>
    IF ret[1].value = None
    THEN \A i \in Generated : ~Blocks(i)
    ELSE \E i \in Generated :
           /\ moves[i][1] = ret[1].value[1]
           /\ Blocks(i)
           /\ \A j \in 1 .. (i - 1) : ~Blocks(j)

\* A move was returned that is not the first generated move: the opponent
\* wins after every move generated before it.
C11_Witness ==
  /\ ret # None /\ ret[1].fn = "find_blocking_move"
  /\ ret[1].value # None
  /\ moves # << >> /\ ret[1].value[1] # moves[1][1]

\* No move was returned although the player has moves.
C11_WitnessNone ==
  /\ ret # None /\ ret[1].fn = "find_blocking_move"
  /\ ret[1].value = None
  /\ moves # << >>

\* The player p has a generated move after which the opponent has no
\* winning move.
HasBlock(b, p) ==
  LET pm == possible_moves(b, p)
  IN  \E k \in 1 .. Len(pm) : ~CanWinNow(pm[k][2], swap_player(p))

\* C12: is_win_avoidable_by_opponent(position, player) is true iff the
\* opponent has at least one predecessor and a blocking move in every
\* predecessor board of possible_previous_moves(position, opponent).
C12_WinAvoidable ==
  (ret # None /\ ret[1].fn = "is_win_avoidable_by_opponent") =>
    LET opponent == swap_player(current)
        prevs == possible_previous_moves(board, opponent)
    IN  ret[1].value
          <=> /\ prevs # << >>
              /\ \A i \in 1 .. Len(prevs) : HasBlock(prevs[i][2], opponent)

\* The player has a winning move and the call returned false although the
\* opponent has predecessors: one of them had no blocking move.
C12_Witness ==
  /\ ret # None /\ ret[1].fn = "is_win_avoidable_by_opponent"
  /\ ~ret[1].value
  /\ CanWinNow(board, current)
  /\ possible_previous_moves(board, swap_player(current)) # << >>

Searched == ret # None /\ ret[1].fn = "choose_best_move"

\* C13: when the player to move has a generated move that puts the Ball on
\* its goal row, choose_best_move returns, at every depth from 0 on, one of
\* the generated moves with its board, that board has the Ball on the
\* player's goal row and the score is +infinity, whether or not the
\* opponent has a winning move on the same board.
C13_SearchTerminal ==
  (Searched /\ \E i \in Generated : BallOnGoalRow(moves[i][2], current)) =>
    LET v == ret[1].value
    IN  /\ v.mv # None /\ v.board # None
        /\ v.score = INFINITY
        /\ BallOnGoalRow(v.board[1], current)
        /\ \E i \in Generated : moves[i] = <<v.mv[1], v.board[1]>>

\* Both players have a winning move on the board and the call, made with
\* depth 0, returned a winning move of the player to move.
C13_Witness ==
  /\ Searched /\ ret[1].depth = 0
  /\ CanWinNow(board, current)
  /\ CanWinNow(board, swap_player(current))
  /\ ret[1].value.score = INFINITY
  /\ ret[1].value.mv # None

\* C14: choose_best_move returns no move and no board only when the player
\* has no legal move.
C14_NoneOnlyWithoutMoves ==
  Searched =>
    /\ ret[1].value.mv = None => moves = << >>
    /\ ret[1].value.board = None => moves = << >>

\* p, to move, puts the Ball on its goal row within n moves of its own
\* whatever the opponent replies; and q, to move, cannot win at once and
\* leaves the other player such a win whatever q plays.
RECURSIVE ForcedWin(_, _, _)
RECURSIVE ForcedLoss(_, _, _)
ForcedWin(b, p, n) ==
  /\ n >= 1
  /\ \/ CanWinNow(b, p)
     \/ LET pm == possible_moves(b, p)
        IN  \E i \in 1 .. Len(pm) : ForcedLoss(pm[i][2], swap_player(p), n - 1)

ForcedLoss(b, q, n) ==
  /\ ~CanWinNow(b, q)
  /\ LET pm == possible_moves(b, q)
     IN  \A i \in 1 .. Len(pm) : ForcedWin(pm[i][2], swap_player(q), n)

\* C15: the score is +infinity only when the player to move has a forced
\* win within the searched plies and -infinity only when the player loses
\* whatever it plays; otherwise the score is finite.
C15_InfiniteScoreIsForced ==
  Searched =>
    LET v == ret[1].value
    IN  /\ v.score = INFINITY => ForcedWin(board, current, ret[1].depth + 1)
        /\ v.score = NEG_INFINITY
             => ForcedLoss(board, current, ret[1].depth + 1)
        /\ v.score \in {INFINITY, NEG_INFINITY} \/ v.score.inf = 0

\* C16: on new_game (defenders on rows 0 and 5 at columns 1, 3, 5,
\* attackers on rows 1 and 4 at columns 2, 4, Ball at row 2 column 3)
\* choose_best_move for White with depth 1 returns a move with its board
\* and a finite score; neither player has a winning move at the start or
\* after any first move of White.
C16_StartPosition ==
  (Searched /\ board = new_game /\ current = White /\ ret[1].depth = 1) =>
    LET v == ret[1].value
    IN  /\ \A c \in {1, 3, 5} :
             /\ At(board, <<0, c>>) = Some(Piece(Defender, Black))
             /\ At(board, <<5, c>>) = Some(Piece(Defender, White))
        /\ \A c \in {2, 4} :
             /\ At(board, <<1, c>>) = Some(Piece(Attacker, Black))
             /\ At(board, <<4, c>>) = Some(Piece(Attacker, White))
        /\ BallCoords(board) = {<<2, 3>>}
        /\ Cardinality({i \in DOMAIN board.cells : board.cells[i] # None}) = 11
        /\ v.mv # None /\ v.board # None
        /\ \E i \in Generated : moves[i] = <<v.mv[1], v.board[1]>>
        /\ v.score.inf = 0
        /\ \A p \in {White, Black} :
             /\ ~CanWinNow(board, p)
             /\ \A i \in Generated : ~CanWinNow(moves[i][2], p)

\* The call has been made on the start position for White with depth 1 and
\* returned a move.
C16_Witness ==
  /\ Searched /\ board = new_game /\ current = White /\ ret[1].depth = 1
  /\ ret[1].value.mv # None
  /\ moves # << >>

\* C18: choose_best_move returns for every position and depth, and the
\* calls of minimax nest at most depth deep below the first one; nothing is
\* called below it at depth 0, when either player has a winning move on the
\* board, or when the player to move has no legal move, and otherwise the
\* recursion is entered.
C18_RecursionBounded ==
  Searched =>
    LET v == ret[1].value
        stops == \/ ret[1].depth = 0
                 \/ CanWinNow(board, current)
                 \/ CanWinNow(board, swap_player(current))
                 \/ moves = << >>
    IN  /\ v.below <= ret[1].depth
        /\ stops <=> v.below = 0

\* A call with the largest depth whose recursion went as deep as the depth
\* allows.
C18_Witness ==
  /\ Searched /\ ret[1].depth = MaxDepth /\ MaxDepth >= 1
  /\ ret[1].value.below = ret[1].depth

\* C19: for every move generated for the player on a board, whatever its
\* kind, that board is among the predecessor boards that
\* possible_previous_moves returns for the same player on the board the
\* move leads to.
C19_RetrogradeComplete ==
  (ret # None /\ ret[1].fn = "possible_previous_moves_after") =>
    \E k \in 1 .. Len(ret[1].value) :
      /\ SameShape(board, ret[1].value[k][2])
      /\ ret[1].value[k][2].cells = board.cells

SameKind(m, f) ==
  /\ m.from = f.from /\ m.to = f.to
  /\ m.push_ball = f.push_ball /\ m.jump = f.jump /\ m.tackle = f.tackle

\* C20: every pair (move, prev) returned by possible_previous_moves for a
\* board and a player is matched by a move of the same kind, origin and
\* destination among the moves generated for that player on prev, whose
\* board has the cells of the given board.
C20_RetrogradeSound ==
  (ret # None /\ ret[1].fn = "possible_previous_moves") =>
    \A k \in 1 .. Len(ret[1].value) :
      LET prev == ret[1].value[k][2]
          pm == possible_moves(prev, current)
      IN  \E j \in 1 .. Len(pm) :
            /\ SameKind(pm[j][1], ret[1].value[k][1])
            /\ pm[j][2].cells = board.cells

\* possible_previous_moves returned a reverse simple step and a reverse
\* tackle for the same board.
C20_Witness ==
  /\ ret # None /\ ret[1].fn = "possible_previous_moves"
  /\ \E k \in 1 .. Len(ret[1].value) : IsSimple(ret[1].value[k][1])
  /\ \E k \in 1 .. Len(ret[1].value) : ret[1].value[k][1].tackle

\* possible_previous_moves returned a reverse jump.
C20_WitnessJump ==
  /\ ret # None /\ ret[1].fn = "possible_previous_moves"
  /\ \E k \in 1 .. Len(ret[1].value) : ret[1].value[k][1].jump

\* p has a move: one of its pieces has, in some direction, an empty cell
\* next to it, a Ball it can push, a piece it can jump over as an attacker
\* or a piece it can tackle as a defender.
HasLegalMove(b, p) ==
  \E x \in Own(b, p) : \E d \in Dirs :
    \/ Empty(b, Step(x, d))
    \/ PushLegal(b, x, d)
    \/ At(b, x)[1].piece_type = Attacker /\ JumpLegal(b, x, d)
    \/ At(b, x)[1].piece_type = Defender /\ TackleLegal(b, p, x, d)

\* C17: possible_moves returns a list for every board, with or without a
\* Ball, and every player, with or without pieces: none of its calls of
\* get_piece, place_piece and remove_piece has a coordinate off the board,
\* and the list is empty exactly when the player has no legal move.
C17_PossibleMovesTotal ==
  (ret # None /\ ret[1].fn = "possible_moves") =>
    /\ \A k \in 1 .. Len(ret[1].calls) :
         is_on_board(board, ret[1].calls[k].r, ret[1].calls[k].c)
    /\ ret[1].value # None
    /\ ret[1].value[1] = << >> <=> ~HasLegalMove(board, current)

\* possible_moves returned moves on a board without a Ball for a player
\* whose piece stands in a corner, after reading every cell and writing
\* the boards of the moves.
C17_Witness ==
  /\ ret # None /\ ret[1].fn = "possible_moves"
  /\ BallCoords(board) = {}
  /\ <<0, 0>> \in Own(board, current)
  /\ ret[1].value # None /\ ret[1].value[1] # << >>
  /\ Len(ret[1].calls) > board.rows * board.cols
  /\ \E k \in 1 .. Len(ret[1].calls) : ret[1].calls[k].fn = "place_piece"

\* possible_moves returned the empty list for a player without a piece.
C17_WitnessNoPiece ==
  /\ ret # None /\ ret[1].fn = "possible_moves"
  /\ Own(board, current) = {}
  /\ ret[1].value = Some(<< >>)
  /\ Len(ret[1].calls) = board.rows * board.cols

\* Rank of a move in the three orders: its origin cell in row-major order,
\* its direction in the table DIRECTIONS (a jump goes two steps), and its
\* generator: simple, push, jump, tackle.
OriginRank(b, m) == m.from[1] * b.cols + m.from[2]

StepOf(m) ==
  LET k == IF m.jump THEN 2 ELSE 1
  IN  <<(m.to[1] - m.from[1]) \div k, (m.to[2] - m.from[2]) \div k>>

DirRank(m) == CHOOSE i \in DOMAIN DIRECTIONS : DIRECTIONS[i] = StepOf(m)

KindRank(m) ==
  IF m.tackle THEN 3 ELSE IF m.jump THEN 2 ELSE IF m.push_ball THEN 1 ELSE 0

Before(b, m, n) ==
  \/ OriginRank(b, m) < OriginRank(b, n)
  \/ /\ OriginRank(b, m) = OriginRank(b, n)
     /\ \/ DirRank(m) < DirRank(n)
        \/ DirRank(m) = DirRank(n) /\ KindRank(m) < KindRank(n)

\* C21: the list returned by possible_moves is ordered by origin cell in
\* row-major order, then by direction in the order of DIRECTIONS, then by
\* generator (simple, push, jump, tackle), and a second call on the same
\* board and player returns the same list.
C21_MoveOrder ==
  (ret # None /\ ret[1].fn = "possible_moves" /\ ret[1].value # None) =>
    LET ms == ret[1].value[1]
    IN  /\ \A k \in 1 .. (Len(ms) - 1) : Before(board, ms[k][1], ms[k + 1][1])
        /\ ms = moves

\* The returned list has two moves of one piece in different directions,
\* moves of two pieces, and a jump or a tackle after simple moves.
C21_Witness ==
  /\ ret # None /\ ret[1].fn = "possible_moves" /\ ret[1].value # None
  /\ LET ms == ret[1].value[1]
     IN  /\ \E i, j \in 1 .. Len(ms) :
              /\ i < j /\ ms[i][1].from = ms[j][1].from
              /\ DirRank(ms[i][1]) # DirRank(ms[j][1])
         /\ \E i, j \in 1 .. Len(ms) : ms[i][1].from # ms[j][1].from
         /\ \E i, j \in 1 .. Len(ms) :
              /\ i < j /\ IsSimple(ms[i][1])
              /\ ms[j][1].jump \/ ms[j][1].tackle

\* A token of the format: "--" or an owner letter followed by a kind letter.
ValidToken(tok) ==
  \/ tok = <<"-", "-">>
  \/ Len(tok) = 2 /\ tok[1] \in {"W", "B", "N"} /\ tok[2] \in {"A", "D", "B"}

\* t is made of one or more rows of the same number of tokens, the tokens
\* of a row separated by one space and every row ended by a newline.
WellFormed(t) ==
  \E n_rows, n_cols \in 1 .. Len(t) :
    /\ Len(t) = 3 * n_rows * n_cols
    /\ \A i \in 0 .. (n_rows * n_cols - 1) :
         /\ ValidToken(<<t[3 * i + 1], t[3 * i + 2]>>)
         /\ t[3 * i + 3] = IF i % n_cols = n_cols - 1 THEN "\n" ELSE " "

\* C22: from_repr of the text printed for a board returns Ok with a board
\* equal to it (rows, cols, cells, prev_tackle), and the text printed for
\* the board parsed from a well-formed text is that text.
C22_RoundTrip ==
  /\ (ret # None /\ ret[1].fn = "from_repr" /\ ret[1].source # None) =>
       /\ ret[1].value.tag = "Ok"
       /\ ret[1].value.board = ret[1].source
  /\ (ret # None /\ ret[1].fn = "fmt" /\ ret[1].source # None) =>
       (WellFormed(ret[1].source[1]) => ret[1].value = ret[1].source[1])

\* A board with a Ball and another piece has been printed and parsed back.
C22_Witness ==
  /\ ret # None /\ ret[1].fn = "from_repr" /\ ret[1].source # None
  /\ BallCoords(ret[1].source[1]) # {}
  /\ \E i \in DOMAIN ret[1].source[1].cells :
       /\ ret[1].source[1].cells[i] # None
       /\ ret[1].source[1].cells[i][1].piece_type # Ball
  /\ ret[1].value.tag = "Ok"

\* A well-formed text of two tokens has been parsed and printed back.
C22_WitnessText ==
  /\ ret # None /\ ret[1].fn = "fmt" /\ ret[1].source # None
  /\ WellFormed(ret[1].source[1])
  /\ Len(ret[1].source[1]) = 6
  /\ ret[1].value = ret[1].source[1]

\* The rows of a text (its lines that are not blank) and their tokens.
RowsOf(t) ==
  LET all == lines(t)
  IN  SelectSeq([k \in DOMAIN all |-> trim(all[k])], is_not_empty)

\* t has a row whose number of tokens differs from that of the first row,
\* or a token that is not "--" and is not two characters, or whose first
\* letter is no owner, or whose second letter is no kind.
Malformed(t) ==
  LET rs == RowsOf(t)
  IN  \E r \in DOMAIN rs :
        LET toks == split_whitespace(rs[r])
        IN  \/ Len(toks) # Len(split_whitespace(rs[1]))
            \/ \E c \in DOMAIN toks : ~ValidToken(toks[c])

\* C23: from_repr panics on no text, and on a malformed text it returns an
\* error that names the problem: the number of columns expected and found,
\* the offending token, or the unknown owner or kind letter, with its place.
C23_ParseErrors ==
  (ret # None /\ ret[1].fn = "from_repr") =>
    /\ ret[1].value.tag # "panic"
    /\ Malformed(ret[1].text) =>
         /\ ret[1].value.tag = "Err"
         /\ ret[1].value.err[1].kind \in
              {"Expected rows", "Expected cols", "Invalid token",
               "Unknown player", "Unknown piece"}

LoneDefenderAtBall(b, p, x, d) ==
  /\ Cardinality({i \in DOMAIN b.cells : b.cells[i] # None}) = 2
  /\ Holds(b, x) /\ At(b, x) = Some(Piece(Defender, p))
  /\ Holds(b, Step(x, d)) /\ At(b, Step(x, d)) = Some(Piece(Ball, Neutral))

\* C25: on a board with one defender of p and the Ball only, the Ball next
\* to the defender in direction d and the cell beyond the Ball on the
\* board, empty and off the forbidden columns, possible_moves returns
\* exactly one ball push for that defender: it goes to the Ball's cell and
\* sends the Ball to the cell beyond.
C25_LoneDefenderPush ==
  (ret # None /\ ret[1].fn = "possible_moves" /\ ret[1].value # None) =>
    \A x \in Own(board, current) : \A d \in Dirs :
      (LoneDefenderAtBall(board, current, x, d) /\ PushLegal(board, x, d)) =>
        LET ms == ret[1].value[1]
            pushes == {k \in 1 .. Len(ms) : ms[k][1].push_ball}
        IN  /\ Cardinality(pushes) = 1
            /\ \A k \in pushes :
                 /\ ms[k][1].from = x
                 /\ ms[k][1].to = Step(x, d)
                 /\ ms[k][1].ball_to = Some(Step(Step(x, d), d))

\* possible_moves has been called for White on the board of the test: a
\* White defender on (2, 3) and the Ball on (2, 4) of the 6x7 board.
C25_Witness ==
  /\ ret # None /\ ret[1].fn = "possible_moves" /\ ret[1].value # None
  /\ board = push_test_board /\ current = White
  /\ LoneDefenderAtBall(board, current, <<2, 3>>, <<0, 1>>)
  /\ PushLegal(board, <<2, 3>>, <<0, 1>>)
  /\ \E k \in 1 .. Len(ret[1].value[1]) : ret[1].value[1][k][1].push_ball

\* C27: has_immediate_win returns a value iff winning_moves is not empty,
\* and the value is the first pair of possible_moves whose move is in
\* winning_moves, for White, Black and Neutral alike.
C27_ImmediateWin ==
  (ret # None /\ ret[1].fn = "has_immediate_win") =>
    LET wins == winning_moves(board, current)
        in_wins == {i \in Generated :
                      \E k \in 1 .. Len(wins) : wins[k] = moves[i][1]}
    IN  /\ ret[1].value # None <=> wins # << >>
        /\ ret[1].value # None =>
             \E i \in in_wins :
               /\ \A j \in in_wins : i <= j
               /\ ret[1].value[1] = moves[i]

\* has_immediate_win returned a move of Black, who also has moves that do
\* not win.
C27_Witness ==
  /\ ret # None /\ ret[1].fn = "has_immediate_win"
  /\ current = Black
  /\ ret[1].value # None
  /\ Len(moves) > Len(winning_moves(board, current))

\* has_immediate_win returned a move that is not the first generated one.
C27_WitnessLater ==
  /\ ret # None /\ ret[1].fn = "has_immediate_win"
  /\ ret[1].value # None
  /\ ret[1].value[1] # moves[1]

\* has_immediate_win returned a move for Neutral.
C27_WitnessNeutral ==
  /\ ret # None /\ ret[1].fn = "has_immediate_win"
  /\ current = Neutral
  /\ ret[1].value # None

\* The non-ball pieces not owned by p on the rows strictly between the
\* row of the Ball and the goal row of p.
OpponentsBetween(b, p) ==
  {x \in {Coord(b, i) : i \in DOMAIN b.cells} :
     /\ Holds(b, x) /\ ~HoldsBall(b, x)
     /\ At(b, x)[1].player # p
     /\ \E y \in BallCoords(b) :
          \/ y[1] < x[1] /\ x[1] < GoalRow(b, p)
          \/ GoalRow(b, p) < x[1] /\ x[1] < y[1]}

\* C30: for White and Black on a board with one Ball,
\* count_opponent_pieces_between_ball_and_goal is the number of non-ball
\* pieces not owned by the player on the rows strictly between the row of
\* the Ball and the player's goal row; it is 0 when these two rows are
\* the same or adjacent.
C30_OpponentsBetween ==
  (/\ ret # None
   /\ ret[1].fn = "count_opponent_pieces_between_ball_and_goal"
   /\ current \in {White, Black}
   /\ Cardinality(BallCoords(board)) = 1) =>
    ret[1].value = Cardinality(OpponentsBetween(board, current))

\* A node of the search has been visited: choose_best_move was called on
\* the root or minimax on a node under it.
Visited == ret # None /\ ret[1].fn \in {"choose_best_move", "minimax"}

\* The plies left at the visited node, whether it is maximizing, and the
\* player the root call was made for.
PliesLeft == IF ret[1].fn = "minimax" THEN ret[1].ply ELSE ret[1].depth

Maximizing == ply % 2 = 0

RootPlayer == IF Maximizing THEN current ELSE swap_player(current)

MoverCanWin == \E i \in Generated : BallOnGoalRow(moves[i][2], current)

OtherCanWin == CanWinNow(board, swap_player(current))

\* C26: at a visited node, the root included, where the side to move has
\* no winning move and the other side has one on the same board, the
\* search returns -infinity when maximizing and +infinity when minimizing,
\* with no move and no board and without any nested call, whether or not
\* the side to move has a blocking move.
C26_ThreatNotAnswered ==
  (Visited /\ ~MoverCanWin /\ OtherCanWin) =>
    LET v == ret[1].value
    IN  /\ v.score = IF Maximizing THEN NEG_INFINITY ELSE INFINITY
        /\ v.mv = None /\ v.board = None
        /\ v.below = 0

\* A minimizing node with plies left where the side to move cannot win,
\* the other side can, and the side to move has a blocking move: the
\* search returned +infinity without a move.
C26_Witness ==
  /\ Visited /\ ~Maximizing /\ PliesLeft > 0
  /\ ~MoverCanWin /\ OtherCanWin
  /\ HasBlock(board, current)
  /\ ret[1].value.score = INFINITY
  /\ ret[1].value.mv = None

\* The same at the root, with -infinity.
C26_WitnessRoot ==
  /\ Visited /\ ply = 0 /\ PliesLeft > 0
  /\ ~MoverCanWin /\ OtherCanWin
  /\ HasBlock(board, current)
  /\ ret[1].value.score = NEG_INFINITY
  /\ ret[1].value.mv = None

\* The visited node is expanded: plies are left, neither side has a
\* winning move and the side to move has a legal move.
Expanded ==
  /\ Visited /\ PliesLeft > 0
  /\ ~MoverCanWin /\ ~OtherCanWin
  /\ moves # << >>

\* The score of the i-th child of the visited node: the recursive call on
\* the board after the i-th move, one ply less, the other player to move
\* and the maximizing flag flipped.
ChildScore(i) ==
  minimax(moves[i][2], swap_player(current), PliesLeft - 1, ~Maximizing,
          RootPlayer).score

\* The first child, in list order, that no other child beats.
FirstBest ==
  LET scores == [i \in Generated |-> ChildScore(i)]
      best == {i \in Generated :
                 \A j \in Generated :
                   ~(IF Maximizing THEN gt(scores[j], scores[i])
                                   ELSE lt(scores[j], scores[i]))}
  IN  CHOOSE i \in best : \A j \in best : i <= j

\* C28: an expanded node returns the score, the move and the board of the
\* child with the maximal score when maximizing and the minimal score when
\* minimizing, each child scored by the recursive call with one ply less,
\* the opponent to move and the flag flipped; among the children with the
\* best score it is the first in possible_moves order.
C28_BestChild ==
  Expanded =>
    LET v == ret[1].value
        i == FirstBest
    IN  /\ v.score = ChildScore(i)
        /\ v.mv = Some(moves[i][1])
        /\ v.board = Some(moves[i][2])

\* The visited node is a leaf: no plies are left or the side to move has
\* no legal move, and neither side has a winning move.
Leaf ==
  /\ Visited
  /\ PliesLeft = 0 \/ moves = << >>
  /\ ~MoverCanWin /\ ~OtherCanWin

\* C29: a leaf returns the static evaluation of its board for the player
\* the root call was made for, at maximizing and at minimizing nodes, with
\* no move and no board.
C29_LeafForRootPlayer ==
  Leaf =>
    LET v == ret[1].value
    IN  /\ v.score = Finite(feature_sum(feature_vector(board, RootPlayer)))
        /\ v.mv = None /\ v.board = None

\* A minimizing leaf at ply 0 whose evaluation for the side to move
\* differs from the returned one.
C29_Witness ==
  /\ Leaf /\ ~Maximizing /\ PliesLeft = 0
  /\ moves # << >>
  /\ ret[1].value.score
       # Finite(feature_sum(feature_vector(board, current)))

\* A minimizing leaf with plies left and no legal move.
C29_WitnessNoMove ==
  /\ Leaf /\ ~Maximizing /\ PliesLeft > 0
  /\ moves = << >>
  /\ ret[1].value.score.inf = 0

\* A maximizing leaf: the root, searched with depth 0.
C29_WitnessRoot ==
  /\ Leaf /\ Maximizing /\ PliesLeft = 0
  /\ moves # << >>
  /\ ret[1].value.score.inf = 0

\* The cells next to the Ball that hold a piece of the player to move.
OwnNextToBall ==
  {x \in Own(board, current) :
     \E y \in BallCoords(board) : \E d \in Dirs : Step(x, d) = y}

\* C31: for White and Black on a board with one Ball,
\* count_adjacent_pushers is the number of ball-push moves in
\* possible_moves, and it is at most 8.
C31_AdjacentPushers ==
  (/\ ret # None /\ ret[1].fn = "count_adjacent_pushers"
   /\ current \in {White, Black}
   /\ Cardinality(BallCoords(board)) = 1) =>
    /\ ret[1].value = Cardinality({i \in Generated : moves[i][1].push_ball})
    /\ ret[1].value <= 8

\* One piece of the player next to the Ball can push it and another one
\* next to the Ball cannot.
C31_Witness ==
  /\ ret # None /\ ret[1].fn = "count_adjacent_pushers"
  /\ current \in {White, Black}
  /\ Cardinality(BallCoords(board)) = 1
  /\ ret[1].value >= 1
  /\ Cardinality(OwnNextToBall) > ret[1].value

\* The pieces of p that have an opposing Defender on a neighbouring cell
\* and an empty on-board cell on the opposite side.
Vulnerable(b, p) ==
  {x \in Own(b, p) :
     \E d \in Dirs :
       /\ Holds(b, Step(x, d))
       /\ At(b, Step(x, d)) = Some(Piece(Defender, opponent_of(p)))
       /\ Empty(b, Step(x, <<-d[1], -d[2]>>))}

\* C32: for White and Black the vulnerable feature is the number of the
\* player's pieces, each counted once, that stand one step from an
\* opposing Defender with an empty on-board cell beyond, capped at 5 and
\* divided by 5; it lies between 0 and 1.
C32_VulnerableFeature ==
  (/\ ret # None /\ ret[1].fn = "feature_vector"
   /\ ret[1].value # None
   /\ current \in {White, Black}) =>
    LET n == Cardinality(Vulnerable(board, current))
        v == ret[1].value[1].vulnerable
    IN  /\ v = Frac(board, IF n > 5 THEN 5 ELSE n, 5)
        /\ 0 <= v /\ v <= Unit(board)

\* C33: the description returned with each board matches the change made:
\* from is the origin of the moving piece and to its final cell; at most
\* one of push_ball, jump and tackle is set; a simple move has no payload;
\* a push has ball_to on the two-step cell, a jump jumped_over on the
\* one-step cell, a tackle pushed_piece_from on the one-step cell and
\* pushed_piece_to on the two-step cell; a payload field is present only
\* for its own kind.
C33_MoveDescription ==
  \A i \in Generated :
    LET m == moves[i][1]
        nb == moves[i][2]
        d == StepOf(m)
        one == Step(m.from, d)
        two == Step(one, d)
    IN  /\ m.from \in Own(board, current)
        /\ At(nb, m.from) = None
        /\ At(nb, m.to) = At(board, m.from)
        /\ d \in Dirs
        /\ m.to = IF m.jump THEN two ELSE one
        /\ Cardinality({k \in {"push_ball", "jump", "tackle"} : m[k]}) <= 1
        /\ m.ball_to = IF m.push_ball THEN Some(two) ELSE None
        /\ m.jumped_over = IF m.jump THEN Some(one) ELSE None
        /\ m.pushed_piece_from = IF m.tackle THEN Some(one) ELSE None
        /\ m.pushed_piece_to = IF m.tackle THEN Some(two) ELSE None
        /\ m.push_ball => HoldsBall(board, one) /\ HoldsBall(nb, two)
        /\ m.jump => Holds(board, one) /\ At(nb, one) = At(board, one)
        /\ m.tackle => Holds(board, one) /\ At(nb, two) = At(board, one)

\* The list generated after a move holds a simple move and a tackle.
C33_Witness ==
  /\ mv # None
  /\ \E i \in Generated : IsSimple(moves[i][1])
  /\ \E i \in Generated : moves[i][1].tackle

\* The list generated after a move holds a push.
C33_WitnessPush ==
  /\ mv # None
  /\ \E i \in Generated : moves[i][1].push_ball

\* The list generated after a move holds a jump.
C33_WitnessJump ==
  /\ mv # None
  /\ \E i \in Generated : moves[i][1].jump

\* The number of pieces of each owner and kind on the board.
Census(b) ==
  [o \in Player, t \in PieceType |->
     Cardinality({i \in DOMAIN b.cells : b.cells[i] = Some(Piece(t, o))})]

\* The boards with DEFAULT_COLS columns are those reached from new_game;
\* the small positions are narrower.
FromNewGame == board.cols = DEFAULT_COLS

\* C34: no move captures, creates or converts a piece: every generated
\* board has as many pieces of each owner and kind as the board it was
\* generated from, and every board reached from new_game holds 3 defenders
\* and 2 attackers of each player and one Ball.
C34_PiecesConserved ==
  /\ \A i \in Generated : Census(moves[i][2]) = Census(board)
  /\ FromNewGame =>
       Census(board) =
         [o \in Player, t \in PieceType |->
            IF o = Neutral THEN (IF t = Ball THEN 1 ELSE 0)
            ELSE IF t = Defender THEN 3 ELSE IF t = Attacker THEN 2 ELSE 0]

\* A tackle has been applied and the list generated on its board holds a
\* tackle again.
C34_Witness ==
  /\ mv # None /\ mv[1].tackle
  /\ Holds(board, mv[1].pushed_piece_to[1])
  /\ \E i \in Generated : moves[i][1].tackle

\* A board two cells away from new_game, reached by a push of the Ball.
C34_WitnessNewGame ==
  /\ FromNewGame
  /\ mv # None /\ mv[1].push_ball

\* C35: the list generated for White or Black holds at most one move for
\* each origin cell and direction, and no two of its moves have the same
\* from and to, so the first move found by from and to is the only one.
C35_UniqueMoves ==
  \A i, j \in Generated :
    LET m == moves[i][1]
        n == moves[j][1]
    IN  i # j =>
          /\ ~(m.from = n.from /\ StepOf(m) = StepOf(n))
          /\ ~(m.from = n.from /\ m.to = n.to)

\* The list generated after a move holds two moves of one piece and two
\* moves, of two pieces, to one cell.
C35_Witness ==
  /\ mv # None
  /\ \E i, j \in Generated :
       moves[i][1].from = moves[j][1].from /\ moves[i][1].to # moves[j][1].to
  /\ \E i, j \in Generated :
       moves[i][1].from # moves[j][1].from /\ moves[i][1].to = moves[j][1].to

\* C36: for White and Black only a push changes the cell of the Ball: a
\* simple move, a jump and a tackle leave it where it is and a tackle never
\* moves the Ball.  So when the Ball is not on the player's goal row every
\* move of winning_moves is a push with ball_to on that row, and when it
\* is already there every generated move that is not a push is in
\* winning_moves.
C36_OnlyPushesMoveBall ==
  LET wm == winning_moves(board, current)
      goal == GoalRow(board, current)
  IN  /\ \A i \in Generated :
           LET m == moves[i][1]
               nb == moves[i][2]
           IN  /\ ~m.push_ball => BallCoords(nb) = BallCoords(board)
               /\ m.push_ball => BallCoords(nb) # BallCoords(board)
               /\ m.tackle => m.pushed_piece_from[1] \notin BallCoords(board)
      /\ ~BallOnGoalRow(board, current) =>
           \A k \in 1 .. Len(wm) :
             /\ wm[k].push_ball
             /\ wm[k].ball_to[1][1] = goal
      /\ BallOnGoalRow(board, current) =>
           \A i \in Generated :
             ~moves[i][1].push_ball =>
               \E k \in 1 .. Len(wm) : wm[k] = moves[i][1]

\* After a move the Ball is on the goal row of the player to move, who has
\* a tackle and a simple move: both are winning moves.
C36_Witness ==
  /\ mv # None
  /\ BallOnGoalRow(board, current)
  /\ LET wm == winning_moves(board, current)
     IN  /\ \E k \in 1 .. Len(wm) : wm[k].tackle
         /\ \E k \in 1 .. Len(wm) : IsSimple(wm[k])

\* After a move the Ball is off the goal row of the player to move, who
\* has a winning push and other moves, none of them winning.
C36_WitnessPush ==
  /\ mv # None
  /\ ~BallOnGoalRow(board, current)
  /\ LET wm == winning_moves(board, current)
     IN  /\ wm # << >>
         /\ \A k \in 1 .. Len(wm) : wm[k].push_ball
         /\ Len(moves) > Len(wm)

\* C37: on every board reached from new_game no cell next to the Ball
\* holds a second Ball or a piece owned by Neutral, so
\* count_control_around_ball never reaches an unreachable! branch and
\* both it and feature_vector return.
C37_EvaluationNeverTraps ==
  /\ \A x \in BallCoords(board) : \A d \in Dirs :
       Holds(board, Step(x, d)) =>
         /\ At(board, Step(x, d))[1].piece_type # Ball
         /\ At(board, Step(x, d))[1].player # Neutral
  /\ (ret # None /\ ret[1].fn \in {"feature_vector",
                                    "count_control_around_ball"}) =>
       ret[1].value # None

\* feature_vector has returned on a board reached by a push, where the
\* pusher and another piece stand next to the Ball.
C37_Witness ==
  /\ ret # None /\ ret[1].fn = "feature_vector" /\ ret[1].value # None
  /\ mv # None /\ mv[1].push_ball
  /\ \E x \in BallCoords(board) :
       Cardinality({d \in Dirs : Holds(board, Step(x, d))}) >= 2

\* C38: choose_best_move returns a move iff it returns a board, and a
\* returned move and board are together one element of possible_moves for
\* the board and player of the call.
C38_MoveAndBoardTogether ==
  Searched =>
    LET v == ret[1].value
    IN  /\ v.mv = None <=> v.board = None
        /\ v.mv # None =>
             \E i \in Generated : moves[i] = <<v.mv[1], v.board[1]>>

\* A search of depth 1 returned a move that is not an immediate win, with
\* its board and a finite score.
C38_Witness ==
  /\ Searched /\ ret[1].depth = 1
  /\ ret[1].value.mv # None /\ ret[1].value.board # None
  /\ ret[1].value.score.inf = 0
  /\ ret[1].value.below = 1

\* A search returned an immediate win with its board.
C38_WitnessWin ==
  /\ Searched
  /\ ret[1].value.mv # None /\ ret[1].value.board # None
  /\ ret[1].value.score = INFINITY
  /\ BallOnGoalRow(ret[1].value.board[1], current)

\* A search returned neither a move nor a board.
C38_WitnessNone ==
  /\ Searched
  /\ ret[1].value.mv = None /\ ret[1].value.board = None

====
